---- MODULE Spec2Model ----
(***************************************************************************)
(* Orthogonal connector routing engine of mdeck                            *)
(* (crates/mdeck/src/render/diagram/routing).                              *)
(*                                                                         *)
(* Conventions of the model:                                               *)
(*  - every f64 of the engine (g_cost, h_cost, f_cost, length) is a        *)
(*    multiple of 0.5; the model stores twice the value as an integer      *)
(*    (HALF units): 0.5 is 1, a turn or lane-change penalty of 1.0 is 2.   *)
(*  - Option<T> is a sequence: <<>> is None, <<x>> is Some(x).             *)
(*  - a String is a sequence of one-character strings.                     *)
(*  - Ordering is one of "Less", "Equal", "Greater".                       *)
(***************************************************************************)
EXTENDS Integers, Sequences, FiniteSets, TLC

----------------------------------------------------------------------------
(* std::cmp::Ordering *)

cmp(a, b) == IF a < b THEN "Less" ELSE IF a > b THEN "Greater" ELSE "Equal"

then(o1, o2) == IF o1 = "Equal" THEN o2 ELSE o1

reverse(o) == IF o = "Less" THEN "Greater" ELSE IF o = "Greater" THEN "Less" ELSE "Equal"

abs(x) == IF x < 0 THEN -x ELSE x

None == <<>>

Some(x) == <<x>>

----------------------------------------------------------------------------
(* types.rs *)

GridCoord(c2, r2) == [col2 |-> c2, row2 |-> r2]

from_int(col, row) == GridCoord(col * 2, row * 2)

ALL == <<"North", "East", "South", "West">>

Direction == {ALL[i] : i \in 1..4}

\* derive(PartialOrd, Ord) on the enum: declaration order.
Direction_ord(d) ==
    CASE d = "North" -> 1
      [] d = "East"  -> 2
      [] d = "South" -> 3
      [] d = "West"  -> 4

step(c, dir) ==
    CASE dir = "North" -> GridCoord(c.col2, c.row2 - 1)
      [] dir = "South" -> GridCoord(c.col2, c.row2 + 1)
      [] dir = "East"  -> GridCoord(c.col2 + 1, c.row2)
      [] dir = "West"  -> GridCoord(c.col2 - 1, c.row2)

manhattan_to(a, b) == abs(a.col2 - b.col2) + abs(a.row2 - b.row2)

is_cell_center(c) == c.col2 % 2 = 0 /\ c.row2 % 2 = 0

is_street_intersection(c) == c.col2 % 2 # 0 /\ c.row2 % 2 # 0

is_junction(c) == (c.col2 % 2 # 0) # (c.row2 % 2 # 0)

\* impl Ord for GridCoord: row-major, then column.
GridCoord_cmp(a, b) == then(cmp(a.row2, b.row2), cmp(a.col2, b.col2))

is_horizontal(d) == d \in {"East", "West"}

is_vertical(d) == ~is_horizontal(d)

\* A variant of is_turn that counts every change of direction, a reversal
\* included.
is_turn_on_any_change(d, other) == d # other

is_turn(d, other) == is_horizontal(d) # is_horizontal(other)

opposite(d) ==
    CASE d = "North" -> "South"
      [] d = "South" -> "North"
      [] d = "East"  -> "West"
      [] d = "West"  -> "East"

\* SegmentId::new: the lesser coordinate goes first.
SegmentId_new(a, b) ==
    IF GridCoord_cmp(a, b) # "Greater" THEN [from |-> a, to |-> b]
                                       ELSE [from |-> b, to |-> a]

seg_is_horizontal(seg) == seg.from.row2 = seg.to.row2

seg_is_vertical(seg) == seg.from.col2 = seg.to.col2

Waypoint(c, l) == [coord |-> c, lane |-> l]

\* RouteComplexity; length is in HALF units (2 = 1.0 grid unit).
RouteComplexity(len, t, lc) == [length |-> len, turns |-> t, lane_changes |-> lc]

\* RouteComplexity::total, in HALF units: length + turns + lane_changes.
total(c) == c.length + 2 * c.turns + 2 * c.lane_changes

\* impl Ord for RouteComplexity.
RouteComplexity_cmp(a, b) ==
    then(cmp(total(a), total(b)),
    then(cmp(a.length, b.length),
    then(cmp(a.turns, b.turns),
         cmp(a.lane_changes, b.lane_changes))))

Route(wps, c) == [waypoints |-> wps, complexity |-> c]

DiagramNode(n, c, r) == [name |-> n, col |-> c, row |-> r]

DiagramEdge(s, t, l) == [source |-> s, target |-> t, label |-> l]

RoutingConfig(h, v) == [h_lane_capacity |-> h, v_lane_capacity |-> v]

Success(route) == [kind |-> "Success", route |-> route]

Failure(w) == [kind |-> "Failure", warning |-> w]

----------------------------------------------------------------------------
(* lanes.rs *)

RECURSIVE spiral_loop(_, _, _)
\* The while loop of spiral_lanes: push offset, then -offset, while room.
spiral_loop(lanes, offset, capacity) ==
    IF Len(lanes) < capacity
    THEN LET l1 == Append(lanes, offset)
             l2 == IF Len(l1) < capacity THEN Append(l1, -offset) ELSE l1
         IN  spiral_loop(l2, offset + 1, capacity)
    ELSE lanes

\* spiral_lanes with one lane too many.
spiral_lanes_one_more(capacity) == spiral_loop(<<0>>, 1, capacity + 1)

\* Lane numbers in spiral order 0, 1, -1, 2, -2, ...: exactly `capacity` of them.
spiral_lanes(capacity) ==
    IF capacity <= 0 THEN <<>> ELSE spiral_loop(<<0>>, 1, capacity)

\* LaneOccupancy::new: `claimed` maps a SegmentId to its set of claimed lanes.
LaneOccupancy_new == [claimed |-> <<>>]

\* is_available without the look-up of the claimed lanes.
is_available_unchecked(occ, seg, lane) == TRUE

is_available(occ, seg, lane) ==
    ~(seg \in DOMAIN occ.claimed) \/ ~(lane \in occ.claimed[seg])

\* claim that puts the lane in place of the lanes claimed on the segment
\* before.
claim_replacing(occ, seg, lane) ==
    [claimed |-> (seg :> {lane}) @@ occ.claimed]

claim(occ, seg, lane) ==
    [claimed |->
        IF seg \in DOMAIN occ.claimed
        THEN [occ.claimed EXCEPT ![seg] = @ \cup {lane}]
        ELSE occ.claimed @@ (seg :> {lane})]

RECURSIVE claim_windows(_, _, _)
claim_windows(occ, wps, i) ==
    IF i + 1 > Len(wps) THEN occ
    ELSE CHOOSE after \in
            {claim_windows(claimed, wps, i + 1) : claimed \in
                {claim(occ, SegmentId_new(wps[i].coord, wps[i + 1].coord), wps[i].lane)}}
            : TRUE

\* claim_route that leaves the first segment of the route unclaimed.
claim_route_from_second_waypoint(occ, route) == claim_windows(occ, route.waypoints, 2)

\* For each consecutive waypoint pair, claim the first waypoint's lane.
claim_route(occ, route) == claim_windows(occ, route.waypoints, 1)

\* available_lanes without the filter on the claimed lanes.
available_lanes_unfiltered(occ, seg, capacity) == spiral_lanes(capacity)

available_lanes(occ, seg, capacity) ==
    SelectSeq(spiral_lanes(capacity), LAMBDA lane : is_available(occ, seg, lane))

first_available(occ, seg, capacity) ==
    LET a == available_lanes(occ, seg, capacity)
    IN  IF a = <<>> THEN None ELSE Some(Head(a))

claimed_count(occ, seg) ==
    IF seg \in DOMAIN occ.claimed THEN Cardinality(occ.claimed[seg]) ELSE 0

segment_direction(a, b) ==
    LET dc == b.col2 - a.col2
        dr == b.row2 - a.row2
    IN  IF dc > 0 /\ dr = 0 THEN Some("East")
        ELSE IF dc < 0 /\ dr = 0 THEN Some("West")
        ELSE IF dr > 0 /\ dc = 0 THEN Some("South")
        ELSE IF dr < 0 /\ dc = 0 THEN Some("North")
        ELSE None

RECURSIVE complexity_loop(_, _, _)
\* The for loop of compute_complexity, from index i (1-based) on; acc is the
\* (length, turns, lane_changes) accumulated so far.
complexity_loop(wps, i, acc) ==
    IF i > Len(wps) THEN acc
    ELSE
      LET prev == wps[i - 1]
          curr == wps[i]
          \* |dcol|/2 + |drow|/2 grid units = |dcol| + |drow| HALF units
          len  == acc.length + abs(curr.coord.col2 - prev.coord.col2)
                             + abs(curr.coord.row2 - prev.coord.row2)
          pd   == IF i >= 3 THEN segment_direction(wps[i - 2].coord, prev.coord) ELSE None
          cd   == IF i >= 3 THEN segment_direction(prev.coord, curr.coord) ELSE None
          both == pd # None /\ cd # None
          turn == both /\ is_turn(pd[1], cd[1])
          lc   == both /\ wps[i - 2].lane # prev.lane /\ ~turn
      IN  complexity_loop(wps, i + 1,
              RouteComplexity(len,
                              acc.turns + (IF turn THEN 1 ELSE 0),
                              acc.lane_changes + (IF lc THEN 1 ELSE 0)))

compute_complexity(wps) == complexity_loop(wps, 2, RouteComplexity(0, 0, 0))

build_route_from_waypoints(wps) == Route(wps, compute_complexity(wps))

----------------------------------------------------------------------------
(* graph.rs *)
(* The three maps of RoutingGraph are functions of the doubled-coordinate    *)
(* range, the occupied cells and the two capacities alone; the model keeps   *)
(* those and derives each map entry from them when it is looked up.          *)

SetMin(S) == CHOOSE x \in S : \A y \in S : x <= y

SetMax(S) == CHOOSE x \in S : \A y \in S : x >= y

\* RoutingGraph_build that ends the graph at the outermost cell centers,
\* without the boundary streets.
RoutingGraph_build_without_boundary(positions, h_lane_capacity, v_lane_capacity) ==
    IF positions = <<>>
    THEN [empty |-> TRUE, c2_min |-> 0, c2_max |-> 0, r2_min |-> 0, r2_max |-> 0,
          occupied_cells |-> {}, h |-> h_lane_capacity, v |-> v_lane_capacity]
    ELSE
      LET idx_     == DOMAIN positions
          min_col  == SetMin({positions[i][1] : i \in idx_})
          max_col  == SetMax({positions[i][1] : i \in idx_})
          min_row  == SetMin({positions[i][2] : i \in idx_})
          max_row  == SetMax({positions[i][2] : i \in idx_})
      IN  [empty  |-> FALSE,
           c2_min |-> 2 * min_col,
           c2_max |-> 2 * max_col,
           r2_min |-> 2 * min_row,
           r2_max |-> 2 * max_row,
           occupied_cells |-> {from_int(positions[i][1], positions[i][2]) : i \in idx_},
           h |-> h_lane_capacity,
           v |-> v_lane_capacity]

\* RoutingGraph::build over `positions`, a sequence of <<col, row>>.
RoutingGraph_build(positions, h_lane_capacity, v_lane_capacity) ==
    IF positions = <<>>
    THEN [empty |-> TRUE, c2_min |-> 0, c2_max |-> 0, r2_min |-> 0, r2_max |-> 0,
          occupied_cells |-> {}, h |-> h_lane_capacity, v |-> v_lane_capacity]
    ELSE
      LET idx_     == DOMAIN positions
          min_col  == SetMin({positions[i][1] : i \in idx_})
          max_col  == SetMax({positions[i][1] : i \in idx_})
          min_row  == SetMin({positions[i][2] : i \in idx_})
          max_row  == SetMax({positions[i][2] : i \in idx_})
      IN  [empty  |-> FALSE,
           c2_min |-> 2 * min_col - 1,
           c2_max |-> 2 * max_col + 1,
           r2_min |-> 2 * min_row - 1,
           r2_max |-> 2 * max_row + 1,
           occupied_cells |-> {from_int(positions[i][1], positions[i][2]) : i \in idx_},
           h |-> h_lane_capacity,
           v |-> v_lane_capacity]

\* all_nodes / node_set of build: every position of the doubled range.
node_set(g) ==
    IF g.empty THEN {}
    ELSE {GridCoord(c2, r2) : c2 \in g.c2_min..g.c2_max, r2 \in g.r2_min..g.r2_max}

\* contains for a graph that stops short of the boundary streets.
contains_without_boundary_streets(g, coord) ==
    /\ ~g.empty
    /\ g.c2_min < coord.col2 /\ coord.col2 < g.c2_max
    /\ g.r2_min < coord.row2 /\ coord.row2 < g.r2_max

\* adjacency.contains_key(coord)
contains(g, coord) ==
    /\ ~g.empty
    /\ g.c2_min <= coord.col2 /\ coord.col2 <= g.c2_max
    /\ g.r2_min <= coord.row2 /\ coord.row2 <= g.r2_max

\* The adjacency entry of one coordinate: Direction::ALL order, a neighbor
\* kept when the stepped-to position is in node_set.
neighbor_list(g, coord) ==
    LET entry(i) == [neighbor |-> step(coord, ALL[i]),
                     seg      |-> SegmentId_new(coord, step(coord, ALL[i])),
                     dir      |-> ALL[i]]
        all4 == [i \in 1..4 |-> entry(i)]
    IN  SelectSeq(all4, LAMBDA e : contains(g, e.neighbor))

adjacency(g) == [coord \in node_set(g) |-> neighbor_list(g, coord)]

neighbors(g, coord) == IF contains(g, coord) THEN neighbor_list(g, coord) ELSE <<>>

\* The keys of segment_capacities: the segments between adjacent graph nodes.
is_graph_segment(g, seg) ==
    /\ contains(g, seg.from) /\ contains(g, seg.to)
    /\ manhattan_to(seg.from, seg.to) = 1
    /\ SegmentId_new(seg.from, seg.to) = seg

\* capacity that gives every segment the horizontal capacity.
capacity_horizontal_for_all(g, seg) ==
    IF is_graph_segment(g, seg) THEN g.h ELSE 0

\* segment_capacities.get(seg).copied().unwrap_or(0)
capacity(g, seg) ==
    IF is_graph_segment(g, seg)
    THEN IF seg_is_horizontal(seg) THEN g.h ELSE g.v
    ELSE 0

is_occupied(g, coord) == coord \in g.occupied_cells

----------------------------------------------------------------------------
(* search.rs *)

StateKey(c, l, d) == [coord |-> c, lane |-> l, last_direction |-> d]

key(state) == StateKey(state.coord, state.lane, state.last_direction)

f_cost(state) == state.g_cost + state.h_cost

PqEntry(state) ==
    [f_cost |-> f_cost(state), g_cost |-> state.g_cost, coord |-> state.coord,
     lane |-> state.lane, direction |-> state.last_direction, state |-> state]

\* PqEntry_cmp without the tie-break on the sign of the lane.
PqEntry_cmp_no_lane_sign(self, other) ==
    then(cmp(other.f_cost, self.f_cost),
    then(cmp(other.g_cost, self.g_cost),
    then(GridCoord_cmp(other.coord, self.coord),
    then(reverse(cmp(abs(self.lane), abs(other.lane))),
         cmp(Direction_ord(other.direction), Direction_ord(self.direction))))))

\* PqEntry_cmp that, among equal costs and coordinates, pops the lane farthest
\* from the center first.
PqEntry_cmp_outer_lane_first(self, other) ==
    then(cmp(other.f_cost, self.f_cost),
    then(cmp(other.g_cost, self.g_cost),
    then(GridCoord_cmp(other.coord, self.coord),
    then(cmp(abs(self.lane), abs(other.lane)),
    then(cmp(other.lane, self.lane),
         cmp(Direction_ord(other.direction), Direction_ord(self.direction)))))))

\* impl Ord for PqEntry, self.cmp(other); BinaryHeap pops the greatest entry.
PqEntry_cmp(self, other) ==
    then(cmp(other.f_cost, self.f_cost),
    then(cmp(other.g_cost, self.g_cost),
    then(GridCoord_cmp(other.coord, self.coord),
    then(reverse(cmp(abs(self.lane), abs(other.lane))),
    then(cmp(other.lane, self.lane),
         cmp(Direction_ord(other.direction), Direction_ord(self.direction)))))))

\* Manhattan distance in grid units, here in HALF units.
heuristic(from, to) == manhattan_to(from, to)

\* 0.5 grid units per step of the doubled grid.
step_length == 1

\* The states seeded at the first junction, one per available first lane.
seed_states(first_junction, first_lanes, target_, initial_dir) ==
    {[coord |-> first_junction, lane |-> first_lanes[i], last_direction |-> initial_dir,
      g_cost |-> step_length, h_cost |-> heuristic(first_junction, target_),
      parent |-> None, parent_lane |-> first_lanes[i],
      length_so_far |-> step_length, turns_so_far |-> 0, lane_changes_so_far |-> 0]
        : i \in DOMAIN first_lanes}

\* neighbor_rejected without the two occupied-cell rules.
neighbor_rejected_reversal_only(g, current, nb, source_, target_) ==
    nb.dir = opposite(current.last_direction)

\* neighbor_rejected that closes every cell center but the two endpoints,
\* occupied or not.
neighbor_rejected_every_center(g, current, nb, source_, target_) ==
    \/ nb.dir = opposite(current.last_direction)
    \/ /\ is_cell_center(nb.neighbor)
       /\ nb.neighbor # source_
       /\ nb.neighbor # target_
    \/ /\ is_cell_center(current.coord)
       /\ is_occupied(g, current.coord)
       /\ current.coord # source_
       /\ current.coord # target_

\* neighbor_rejected without "Don't go backwards".
neighbor_rejected_allowing_reversal(g, current, nb, source_, target_) ==
    \/ /\ is_cell_center(nb.neighbor)
       /\ is_occupied(g, nb.neighbor)
       /\ nb.neighbor # source_
       /\ nb.neighbor # target_
    \/ /\ is_cell_center(current.coord)
       /\ is_occupied(g, current.coord)
       /\ current.coord # source_
       /\ current.coord # target_

\* Whether the expansion loop skips this neighbor before looking at lanes.
neighbor_rejected(g, current, nb, source_, target_) ==
    \/ nb.dir = opposite(current.last_direction)
    \/ /\ is_cell_center(nb.neighbor)
       /\ is_occupied(g, nb.neighbor)
       /\ nb.neighbor # source_
       /\ nb.neighbor # target_
    \/ /\ is_cell_center(current.coord)
       /\ is_occupied(g, current.coord)
       /\ current.coord # source_
       /\ current.coord # target_

\* The elements a for loop over the Vec visits.
elements(s) == {s[i] : i \in DOMAIN s}

\* successor that charges and counts a lane change at a turn as well.
successor_counting_every_lane_change(current, nb, next_lane, target_) ==
    LET turn         == is_turn(current.last_direction, nb.dir)
        lane_changed == next_lane # current.lane
        lane_change_cost == IF lane_changed THEN 2 ELSE 0
        turn_cost    == IF turn THEN 2 ELSE 0
    IN  [coord |-> nb.neighbor, lane |-> next_lane, last_direction |-> nb.dir,
         g_cost |-> current.g_cost + step_length + turn_cost + lane_change_cost,
         h_cost |-> heuristic(nb.neighbor, target_),
         parent |-> Some(key(current)), parent_lane |-> current.lane,
         length_so_far |-> current.length_so_far + step_length,
         turns_so_far |-> current.turns_so_far + (IF turn THEN 1 ELSE 0),
         lane_changes_so_far |-> current.lane_changes_so_far
                                   + (IF lane_changed THEN 1 ELSE 0)]

\* The successor state of `current` over neighbor entry nb in lane next_lane.
successor(current, nb, next_lane, target_) ==
    LET turn         == is_turn(current.last_direction, nb.dir)
        lane_changed == next_lane # current.lane
        lane_change_cost == IF lane_changed /\ ~turn THEN 2 ELSE 0
        turn_cost    == IF turn THEN 2 ELSE 0
    IN  [coord |-> nb.neighbor, lane |-> next_lane, last_direction |-> nb.dir,
         g_cost |-> current.g_cost + step_length + turn_cost + lane_change_cost,
         h_cost |-> heuristic(nb.neighbor, target_),
         parent |-> Some(key(current)), parent_lane |-> current.lane,
         length_so_far |-> current.length_so_far + step_length,
         turns_so_far |-> current.turns_so_far + (IF turn THEN 1 ELSE 0),
         lane_changes_so_far |-> current.lane_changes_so_far
                                   + (IF lane_changed /\ ~turn THEN 1 ELSE 0)]

\* All successor states generated by the two nested loops of one expansion,
\* before the best_g test.  Each carries a distinct StateKey (one direction
\* per neighbor, one lane per inner iteration), so the loop order is immaterial.
successors(g, occ, current, source_, target_) ==
    UNION {
      IF neighbor_rejected(g, current, nb, source_, target_) THEN {}
      ELSE {successor(current, nb, next_lane, target_)
               : next_lane \in elements(available_lanes(occ, nb.seg, capacity(g, nb.seg)))}
      : nb \in elements(neighbors(g, current.coord))}

\* "Only expand if this is a better path".
improves(best, s) == ~(key(s) \in DOMAIN best) \/ s.g_cost < best[key(s)]

\* trace_back that does not follow came_from: the final state alone.
trace_back_final_only(came, k) == <<k>>

RECURSIVE trace_back(_, _)
\* path_keys of reconstruct_route, already reversed: seed state first.
trace_back(came, k) ==
    IF k \in DOMAIN came THEN Append(trace_back(came, came[k][1]), k) ELSE <<k>>

\* reconstruct_route that leaves on the last waypoint the lane in which the
\* target was reached.
reconstruct_route_keeping_last_lane(came, final_key, source_, first_lanes, final_state) ==
    LET path_keys  == trace_back(came, final_key)
        first_lane == path_keys[1].lane
        n          == Len(path_keys)
        wps == <<Waypoint(source_, first_lane)>> \o
               [i \in 1..n |-> Waypoint(path_keys[i].coord,
                                        IF i + 1 <= n THEN path_keys[i + 1].lane
                                                      ELSE path_keys[i].lane)]
    IN  Route(wps, RouteComplexity(final_state.length_so_far,
                                   final_state.turns_so_far,
                                   final_state.lane_changes_so_far))

reconstruct_route(came, final_key, source_, first_lanes, final_state) ==
    LET path_keys  == trace_back(came, final_key)
        first_lane == path_keys[1].lane
        n          == Len(path_keys)
        wps == <<Waypoint(source_, first_lane)>> \o
               [i \in 1..n |-> Waypoint(path_keys[i].coord,
                                        IF i + 1 <= n THEN path_keys[i + 1].lane ELSE 0)]
    IN  Route(wps, RouteComplexity(final_state.length_so_far,
                                   final_state.turns_so_far,
                                   final_state.lane_changes_so_far))

\* Tie-breaking key of a route: (col2, row2, lane) per waypoint.
route_tiebreak(route) ==
    [i \in DOMAIN route.waypoints |->
        <<route.waypoints[i].coord.col2, route.waypoints[i].coord.row2,
          route.waypoints[i].lane>>]

RECURSIVE vec_cmp(_, _, _)
\* Lexicographic Ord of Vec<(i32, i32, i32)>, from index i on.
vec_cmp(a, b, i) ==
    IF i > Len(a) \/ i > Len(b) THEN cmp(Len(a), Len(b))
    ELSE LET o == then(cmp(a[i][1], b[i][1]),
                  then(cmp(a[i][2], b[i][2]), cmp(a[i][3], b[i][3])))
         IN  IF o # "Equal" THEN o ELSE vec_cmp(a, b, i + 1)

\* better that keeps the first route found.
better_keep_first(best, route) == IF best = None THEN Some(route) ELSE best

\* better without the tie-break: of two routes of equal complexity the one
\* met first is kept.
better_without_tiebreak(best, route) ==
    IF best = None THEN Some(route)
    ELSE IF RouteComplexity_cmp(route.complexity, best[1].complexity) = "Less"
         THEN Some(route)
    ELSE best

\* One step of the fold of find_best_route over the collected results.
better(best, route) ==
    IF best = None THEN Some(route)
    ELSE IF RouteComplexity_cmp(route.complexity, best[1].complexity) = "Less"
         THEN Some(route)
    ELSE IF route.complexity = best[1].complexity
         THEN IF vec_cmp(route_tiebreak(route), route_tiebreak(best[1]), 1) = "Less"
              THEN Some(route) ELSE best
    ELSE best

RECURSIVE reduce_results(_, _, _)
\* The fold over `results` (Option<Route> per direction, in Direction::ALL order).
reduce_results(res, i, best) ==
    IF i > Len(res) THEN best
    ELSE CHOOSE folded \in
            {reduce_results(res, i + 1, kept_best) : kept_best \in
                {IF res[i] = None THEN best ELSE better(best, res[i][1])}}
            : TRUE

\* trivial_route that lists the position twice, as a route of one segment.
trivial_route_two_waypoints(source_) ==
    Route(<<Waypoint(source_, 0), Waypoint(source_, 0)>>, RouteComplexity(0, 0, 0))

\* The trivial route of find_best_route when source == target.
trivial_route(source_) ==
    Route(<<Waypoint(source_, 0)>>, RouteComplexity(0, 0, 0))

----------------------------------------------------------------------------
(* serialize.rs *)
(* A String is a sequence of one-character strings.  A character that a  *)
(* string of this module cannot hold (above U+00FF) is written by its code *)
(* point, as in "U+2028".                                                   *)

DigitChars == <<"0", "1", "2", "3", "4", "5", "6", "7", "8", "9">>

RECURSIVE nat_to_string(_)
\* Display of a non-negative integer: its decimal digits.
nat_to_string(n) ==
    IF n < 10 THEN <<DigitChars[n + 1]>>
    ELSE nat_to_string(n \div 10) \o <<DigitChars[(n % 10) + 1]>>

\* i32_to_string without the sign.
i32_to_string_unsigned(n) == nat_to_string(abs(n))

\* Display of an i32.
i32_to_string(n) == IF n < 0 THEN <<"-">> \o nat_to_string(-n) ELSE nat_to_string(n)

\* Display of the f64 x2 / 2.0 when its fract() is not zero: "1.5", "-0.5".
f64_to_string(x2) ==
    (IF x2 < 0 THEN <<"-">> ELSE <<>>) \o nat_to_string(abs(x2) \div 2) \o <<".", "5">>

\* col.fract() == 0.0 for col = x2 / 2.0
fract_is_zero(x2) == x2 % 2 = 0

\* col as i32 for a col without fraction: x2 / 2 exactly.
as_i32(x2) == IF x2 < 0 THEN -((-x2) \div 2) ELSE x2 \div 2

format_coord(coord) ==
    LET col == coord.col2
        row == coord.row2
    IN  IF fract_is_zero(col) /\ fract_is_zero(row)
        THEN <<"(">> \o i32_to_string(as_i32(col)) \o <<",">>
                     \o i32_to_string(as_i32(row)) \o <<")">>
        ELSE IF fract_is_zero(col)
        THEN <<"(">> \o i32_to_string(as_i32(col)) \o <<",">>
                     \o f64_to_string(row) \o <<")">>
        ELSE IF fract_is_zero(row)
        THEN <<"(">> \o f64_to_string(col) \o <<",">>
                     \o i32_to_string(as_i32(row)) \o <<")">>
        ELSE <<"(">> \o f64_to_string(col) \o <<",">>
                     \o f64_to_string(row) \o <<")">>

RECURSIVE join(_, _)
\* parts.join(sep)
join(parts, sep) ==
    IF parts = <<>> THEN <<>>
    ELSE IF Len(parts) = 1 THEN parts[1]
    ELSE parts[1] \o sep \o join(Tail(parts), sep)

RECURSIVE route_parts(_, _)
\* The loop of route_to_string from waypoint i (1-based) on: the coordinate,
\* then the lane token unless the waypoint is the last.
route_parts(wps, i) ==
    IF i > Len(wps) THEN <<>>
    ELSE <<format_coord(wps[i].coord)>>
         \o (IF i < Len(wps) THEN <<<<"L">> \o i32_to_string(wps[i].lane)>> ELSE <<>>)
         \o route_parts(wps, i + 1)

route_to_string(route) == join(route_parts(route.waypoints, 1), <<"-">>)

\* The characters with the Unicode property White_Space: U+0009 to U+000D,
\* U+0020, U+0085, U+00A0, U+1680, U+2000 to U+200A, U+2028, U+2029, U+202F,
\* U+205F and U+3000.
White_Space ==
    {"\t", "\n", "", "\f", "\r", " ", "", " ",
     "U+1680", "U+2000", "U+2001", "U+2002", "U+2003", "U+2004", "U+2005",
     "U+2006", "U+2007", "U+2008", "U+2009", "U+200A", "U+2028", "U+2029",
     "U+202F", "U+205F", "U+3000"}

\* char::is_whitespace
is_whitespace(ch) == ch \in White_Space

is_ascii_digit(ch) == \E i \in DOMAIN DigitChars : DigitChars[i] = ch

RECURSIVE trim_start(_)
trim_start(s) ==
    IF s # <<>> /\ is_whitespace(Head(s)) THEN trim_start(Tail(s)) ELSE s

RECURSIVE trim_end(_)
trim_end(s) ==
    IF s # <<>> /\ is_whitespace(s[Len(s)])
    THEN trim_end(SubSeq(s, 1, Len(s) - 1)) ELSE s

\* str::trim
trim(s) == trim_end(trim_start(s))

RECURSIVE digits_value(_, _)
\* The value of a run of digits, acc being the value of those already read.
digits_value(s, acc) ==
    IF s = <<>> THEN acc
    ELSE digits_value(Tail(s),
            10 * acc + ((CHOOSE i \in DOMAIN DigitChars : DigitChars[i] = Head(s)) - 1))

all_digits(s) == \A i \in DOMAIN s : is_ascii_digit(s[i])

\* The text after an optional sign.
unsigned_part(s) == IF s # <<>> /\ Head(s) \in {"-", "+"} THEN Tail(s) ELSE s

is_negative(s) == s # <<>> /\ Head(s) = "-"

RECURSIVE strip_zeros(_)
\* The digits without their leading "0"s.
strip_zeros(digits) ==
    IF digits # <<>> /\ Head(digits) = "0" THEN strip_zeros(Tail(digits)) ELSE digits

\* str::parse::<i32>: an optional sign and at least one digit; a value
\* outside the i32 range is an error.
parse_i32(s) ==
    LET u    == unsigned_part(s)
        d    == strip_zeros(u)
        high == digits_value(SubSeq(d, 1, IF Len(d) > 9 THEN 9 ELSE Len(d)), 0)
        last == digits_value(SubSeq(d, 10, Len(d)), 0)
        fits == \/ Len(d) <= 9
                \/ /\ Len(d) = 10
                   /\ \/ high < 214748364
                      \/ high = 214748364 /\ last <= (IF is_negative(s) THEN 8 ELSE 7)
    IN  IF u = <<>> \/ ~all_digits(u) \/ ~fits THEN None
        ELSE IF Len(d) <= 9 THEN Some(IF is_negative(s) THEN -high ELSE high)
        ELSE Some(IF is_negative(s) THEN -(10 * high) - last ELSE 10 * high + last)

\* The indices of s holding ch.
char_positions(s, ch) == {i \in DOMAIN s : s[i] = ch}

UpperChars ==
    <<"A", "B", "C", "D", "E", "F", "G", "H", "I", "J", "K", "L", "M",
      "N", "O", "P", "Q", "R", "S", "T", "U", "V", "W", "X", "Y", "Z">>

LowerChars ==
    <<"a", "b", "c", "d", "e", "f", "g", "h", "i", "j", "k", "l", "m",
      "n", "o", "p", "q", "r", "s", "t", "u", "v", "w", "x", "y", "z">>

\* char::to_ascii_lowercase
to_ascii_lowercase(ch) ==
    IF \E i \in DOMAIN UpperChars : UpperChars[i] = ch
    THEN LowerChars[CHOOSE i \in DOMAIN UpperChars : UpperChars[i] = ch]
    ELSE ch

\* str::eq_ignore_ascii_case against a word in lower case.
eq_ignore_ascii_case(s, word) ==
    /\ Len(s) = Len(word)
    /\ \A i \in DOMAIN s : to_ascii_lowercase(s[i]) = word[i]

\* An f64 read from a decimal text: NaN, an infinity, or the f64 nearest to
\* 0.d1 d2 ... dn * 10^point for the digits d, negated when neg.
F64_nan == [kind |-> "nan", neg |-> FALSE, digits |-> <<>>, point |-> 0]

F64_inf(neg) == [kind |-> "inf", neg |-> neg, digits |-> <<>>, point |-> 0]

F64_finite(neg, digits, point) ==
    [kind |-> "finite", neg |-> neg, digits |-> digits, point |-> point]

RECURSIVE exponent_value(_, _)
\* The value of a run of exponent digits: "if exp_num < 0x10000 { exp_num =
\* 10 * exp_num + digit }", the digits that follow are read and dropped.
exponent_value(s, acc) ==
    IF s = <<>> THEN acc
    ELSE exponent_value(Tail(s),
            IF acc < 65536
            THEN 10 * acc + ((CHOOSE i \in DOMAIN DigitChars : DigitChars[i] = Head(s)) - 1)
            ELSE acc)

\* str::parse::<f64>: an optional sign, then "inf", "infinity" or "nan" in
\* any case, or a decimal: digits with at most one point and at least one
\* digit, then optionally "e" or "E", an optional sign and at least one digit.
\* The value is the f64 nearest to the decimal written, ties to even.
parse_f64(s) ==
    LET u        == unsigned_part(s)
        es       == char_positions(u, "e") \cup char_positions(u, "E")
        e        == IF es = {} THEN Len(u) + 1 ELSE CHOOSE i \in es : \A j \in es : i <= j
        mantissa == SubSeq(u, 1, e - 1)
        exponent == SubSeq(u, e + 1, Len(u))
        exp_digits == unsigned_part(exponent)
        points   == char_positions(mantissa, ".")
        p        == IF points = {} THEN Len(mantissa) + 1 ELSE CHOOSE i \in points : TRUE
        int      == SubSeq(mantissa, 1, p - 1)
        frac     == SubSeq(mantissa, p + 1, Len(mantissa))
        exp      == IF es = {} THEN 0
                    ELSE IF is_negative(exponent) THEN -exponent_value(exp_digits, 0)
                    ELSE exponent_value(exp_digits, 0)
    IN  IF eq_ignore_ascii_case(u, <<"n", "a", "n">>) THEN Some(F64_nan)
        ELSE IF \/ eq_ignore_ascii_case(u, <<"i", "n", "f">>)
                \/ eq_ignore_ascii_case(u, <<"i", "n", "f", "i", "n", "i", "t", "y">>)
        THEN Some(F64_inf(is_negative(s)))
        ELSE IF /\ Cardinality(points) <= 1
                /\ all_digits(int) /\ all_digits(frac)
                /\ Len(int) + Len(frac) >= 1
                /\ es # {} => (exp_digits # <<>> /\ all_digits(exp_digits))
        THEN Some(F64_finite(is_negative(s), int \o frac, Len(int) + exp))
        ELSE None

\* f64 as i32 of a value beyond the i32 range: the nearest bound.
saturated(neg) == IF neg THEN -2147483647 - 1 ELSE 2147483647

RECURSIVE leading_zeros(_)
\* How many "0" the digits start with.
leading_zeros(digits) ==
    IF digits # <<>> /\ Head(digits) = "0" THEN 1 + leading_zeros(Tail(digits)) ELSE 0

\* Half of the decimal fraction 0.ds, one digit longer: long division by 2,
\* where the remainder brought to a digit is the parity of the digit before.
halve_fraction(ds) ==
    <<ds[1] \div 2>> \o
    [j \in 1..Len(ds) |->
        (10 * (ds[j] % 2) + (IF j < Len(ds) THEN ds[j + 1] ELSE 0)) \div 2]

RECURSIVE half_power_from(_, _, _)
\* 2^-m from the k digits ds of 2^-k.
half_power_from(ds, k, m) ==
    IF k = m THEN ds
    ELSE CHOOSE r \in {half_power_from(next, k + 1, m) : next \in {halve_fraction(ds)}} : TRUE

\* The m decimal digits of 2^-m.
half_power(m) == half_power_from(<<5>>, 1, m)

RECURSIVE subtract_from(_, _, _, _, _)
\* The difference of two decimal fractions of one length, the smaller taken
\* from the greater: digit i and those before it, with the borrow and the
\* digits acc of the positions after i.
subtract_from(a, b, i, borrow, acc) ==
    IF i = 0 THEN acc
    ELSE CHOOSE r \in
            {subtract_from(a, b, i - 1, IF v < 0 THEN 1 ELSE 0, <<(v + 10) % 10>> \o acc)
                : v \in {a[i] - b[i] - borrow}}
            : TRUE

\* The least decimal fraction whose nearest f64 is not below I + 0.q5, for
\* q = 2 or 7, when the f64 just below that value is 2^-(m - 1) away: the
\* midpoint of the two, which goes to the upper one, whose mantissa is even.
\* Its m digits.
rounding_threshold(q, m) ==
    subtract_from([j \in 1..m |-> IF j = 1 THEN q ELSE IF j = 2 THEN 5 ELSE 0],
                  half_power(m), m, 0, <<>>)

\* The thresholds for every spacing of the f64 below 2^30.
rounding_thresholds == [q \in {2, 7} |-> [m \in 24..56 |-> rounding_threshold(q, m)]]

RECURSIVE floor_log2(_)
floor_log2(n) == IF n < 2 THEN 0 ELSE 1 + floor_log2(n \div 2)

\* Order of two decimal fractions of one length: a is not below b when no
\* digit of a is the first to differ and the smaller.
fraction_ge(a, b) ==
    ~ \E i \in DOMAIN b : a[i] < b[i] /\ \A j \in 1..(i - 1) : a[j] = b[j]

\* (x * 2.0).round() as i32 for the f64 x nearest to the decimal: the nearest
\* integer, halves away from zero, as the cast saturates: NaN gives 0, a
\* value beyond the i32 range the bound.
round_doubled(x) ==
    IF x.kind = "nan" THEN 0
    ELSE IF x.kind = "inf" THEN saturated(x.neg)
    ELSE
      LET z      == leading_zeros(x.digits)
          d      == SubSeq(x.digits, z + 1, Len(x.digits))
          p      == x.point - z
          at(i)  == IF i >= 1 /\ i <= Len(d)
                    THEN (CHOOSE k \in DOMAIN DigitChars : DigitChars[k] = d[i]) - 1
                    ELSE 0
          \* The integer part, of at most ten digits, below 2^30.
          high   == digits_value([i \in 1..(IF p > 9 THEN 9 ELSE p) |->
                                     DigitChars[at(i) + 1]], 0)
          too_big == \/ p >= 11
                     \/ /\ p = 10
                        /\ \/ high > 107374182
                           \/ high = 107374182 /\ at(10) >= 4
          int    == IF p <= 0 THEN 0 ELSE IF p = 10 THEN 10 * high + at(10) ELSE high
          \* The first two digits after the point decide the halves of twice
          \* the decimal.
          f1     == at(p + 1)
          f2     == at(p + 2)
          written == IF f1 > 7 \/ (f1 = 7 /\ f2 >= 5) THEN 2
                     ELSE IF f1 > 2 \/ (f1 = 2 /\ f2 >= 5) THEN 1
                     ELSE 0
          \* A decimal just below I + 0.25 or I + 0.75 may have that value as
          \* its nearest f64.  The f64 below 0.25 are 2^-55 apart, those from
          \* 0.5 to 1 are 2^-53 apart, those from 2^e to 2^(e+1) 2^(e-52).
          m      == IF int = 0 THEN (IF f1 = 2 THEN 56 ELSE 54)
                    ELSE 53 - floor_log2(int)
          lifted == /\ f1 \in {2, 7} /\ f2 = 4
                    /\ fraction_ge([j \in 1..m |-> at(p + j)], rounding_thresholds[f1][m])
          halves == IF lifted THEN written + 1 ELSE written
      IN  IF d = <<>> THEN 0
          ELSE IF p >= 1 /\ too_big THEN saturated(x.neg)
          ELSE IF int = 1073741823 /\ halves = 2 THEN saturated(x.neg)
          ELSE IF x.neg THEN -(2 * int + halves) ELSE 2 * int + halves

\* GridCoord::from_grid
from_grid(col, row) == GridCoord(round_doubled(col), round_doubled(row))

RECURSIVE skip_dashes(_, _)
\* "Skip leading dashes": the first index from i on that holds no "-".
skip_dashes(s, i) ==
    IF i <= Len(s) /\ s[i] = "-" THEN skip_dashes(s, i + 1) ELSE i

RECURSIVE coord_token_end(_, _)
\* The index of the last character of the coordinate token read from i on:
\* the first ")" or the end of the string.
coord_token_end(s, i) ==
    IF i >= Len(s) THEN Len(s)
    ELSE IF s[i] = ")" THEN i ELSE coord_token_end(s, i + 1)

RECURSIVE digits_end(_, _)
\* The first index from i on that holds no digit.
digits_end(s, i) ==
    IF i <= Len(s) /\ is_ascii_digit(s[i]) THEN digits_end(s, i + 1) ELSE i

RECURSIVE tokenize_from(_, _, _)
\* One round of the outer while loop of tokenize, reading s from index i.
tokenize_from(s, i, tokens) ==
    LET j == skip_dashes(s, i)
    IN  IF j > Len(s) THEN Some(tokens)
        ELSE IF s[j] = "("
        THEN LET e == coord_token_end(s, j)
             IN  tokenize_from(s, e + 1, Append(tokens, SubSeq(s, j, e)))
        ELSE IF s[j] = "L"
        THEN LET m == IF j + 1 <= Len(s) /\ s[j + 1] = "-" THEN j + 2 ELSE j + 1
                 e == digits_end(s, m)
             IN  tokenize_from(s, e, Append(tokens, SubSeq(s, j, e - 1)))
        ELSE None

tokenize(s) == tokenize_from(s, 1, <<>>)

parse_coord(token) ==
    LET s      == trim(token)
        inner  == SubSeq(s, 2, Len(s) - 1)
        commas == char_positions(inner, ",")
        c      == CHOOSE i \in commas : TRUE
        col    == parse_f64(trim(SubSeq(inner, 1, c - 1)))
        row    == parse_f64(trim(SubSeq(inner, c + 1, Len(inner))))
    IN  IF s = <<>> \/ Head(s) # "(" \/ s[Len(s)] # ")" THEN None
        ELSE IF Cardinality(commas) # 1 THEN None
        ELSE IF col = None \/ row = None THEN None
        ELSE Some(from_grid(col[1], row[1]))

parse_lane(token) ==
    LET s == trim(token)
    IN  IF s = <<>> \/ Head(s) # "L" THEN None ELSE parse_i32(Tail(s))

RECURSIVE parse_waypoints(_, _, _)
\* The for loop of string_to_route over the tokens, from token i (1-based,
\* odd: a coordinate token) on.
parse_waypoints(tokens, i, waypoints) ==
    IF i > Len(tokens) THEN Some(waypoints)
    ELSE LET coord == parse_coord(tokens[i])
             lane  == IF i + 1 <= Len(tokens) THEN parse_lane(tokens[i + 1])
                                              ELSE Some(0)
         IN  IF coord = None \/ lane = None THEN None
             ELSE parse_waypoints(tokens, i + 2,
                                  Append(waypoints, Waypoint(coord[1], lane[1])))

\* string_to_route without the test that the token count is odd.
string_to_route_any_parity(text) ==
    LET s         == trim(text)
        tokens    == tokenize(s)
        waypoints == parse_waypoints(tokens[1], 1, <<>>)
    IN  IF s = <<>> THEN None
        ELSE IF tokens = None THEN None
        ELSE IF tokens[1] = <<>> THEN None
        ELSE IF waypoints = None THEN None
        ELSE IF Len(waypoints[1]) < 2 THEN None
        ELSE Some(build_route_from_waypoints(waypoints[1]))

string_to_route(text) ==
    LET s         == trim(text)
        tokens    == tokenize(s)
        waypoints == parse_waypoints(tokens[1], 1, <<>>)
    IN  IF s = <<>> THEN None
        ELSE IF tokens = None THEN None
        ELSE IF tokens[1] = <<>> THEN None
        ELSE IF Len(tokens[1]) % 2 = 0 THEN None
        ELSE IF waypoints = None THEN None
        ELSE IF Len(waypoints[1]) < 2 THEN None
        ELSE Some(build_route_from_waypoints(waypoints[1]))

----------------------------------------------------------------------------
(* mod.rs: route_all_edges, run as a state machine *)

VARIABLES
    nodes, edges, config,      \* the arguments of route_all_edges
    pc,                        \* position in route_all_edges / find_best_route
    name_to_pos,               \* HashMap<&str, (i32, i32)>
    graph,                     \* RoutingGraph
    occupancy,                 \* LaneOccupancy
    results,                   \* Vec<(DiagramEdge, RouteResult)>
    next_edge,                 \* index (1-based) of the edge the for loop is at
    source, target,            \* GridCoord of the edge being searched
    pending,                   \* directions whose search task has not run yet
    task_results,              \* what each task that ran returned (by direction)
    finished,                  \* tasks whose result has reached the collected Vec
    search_results,            \* the collected Vec<Option<Route>>, Direction::ALL order
    initial_dir, first_lanes,  \* locals of the running astar_single_direction
    open, best_g, came_from,
    iteration,                 \* which call of route_all_edges this is
    reference, ref_edges, kept,\* output and edges of the first call; the indices
                               \* of ref_edges the current call was given
    ser_pc,                    \* position in a serialize / parse round
    ser_route,                 \* the Route handed to route_to_string
    ser_text,                  \* the String handed to string_to_route
    ser_parsed,                \* what string_to_route returned
    ser_pieces                 \* the pieces a hand-written input was put together from

vars == <<nodes, edges, config, pc, name_to_pos, graph, occupancy, results,
          next_edge, source, target, pending, task_results, finished,
          search_results, initial_dir,
          first_lanes, open, best_g, came_from, iteration, reference,
          ref_edges, kept, ser_pc, ser_route, ser_text, ser_parsed, ser_pieces>>

input_vars == <<nodes, config>>

call_vars == <<name_to_pos, graph>>

edge_vars == <<source, target>>

par_vars == <<pending, task_results, finished, search_results>>

astar_vars == <<initial_dir, first_lanes, open, best_g, came_from>>

harness_vars == <<iteration, reference, ref_edges, kept>>

ser_vars == <<ser_pc, ser_route, ser_text, ser_parsed, ser_pieces>>

RECURSIVE collect_names_first_wins(_, _, _)
\* collect_names in which the first node of a name keeps its entry.
collect_names_first_wins(ns, i, map) ==
    IF i > Len(ns) THEN map
    ELSE collect_names_first_wins(ns, i + 1,
            IF ns[i].name \in DOMAIN map
            THEN map
            ELSE map @@ (ns[i].name :> <<ns[i].col, ns[i].row>>))

RECURSIVE collect_names(_, _, _)
\* .collect() into the HashMap: a later node with the same name overwrites.
collect_names(ns, i, map) ==
    IF i > Len(ns) THEN map
    ELSE collect_names(ns, i + 1,
            IF ns[i].name \in DOMAIN map
            THEN [map EXCEPT ![ns[i].name] = <<ns[i].col, ns[i].row>>]
            ELSE map @@ (ns[i].name :> <<ns[i].col, ns[i].row>>))

name_to_pos_of(ns) == collect_names(ns, 1, <<>>)

positions_of(ns) == [i \in DOMAIN ns |-> <<ns[i].col, ns[i].row>>]

get(map, k) == IF k \in DOMAIN map THEN Some(map[k]) ELSE None

UnknownSourceText == <<"U","n","k","n","o","w","n"," ","s","o","u","r","c","e"," ","n","o","d","e"," ","'">>

UnknownTargetText == <<"U","n","k","n","o","w","n"," ","t","a","r","g","e","t"," ","n","o","d","e"," ","'">>

NoRouteText == <<"C","o","u","l","d"," ","n","o","t"," ","f","i","n","d"," ","r","o","u","t","e"," ","f","r","o","m"," ","'">>

ToText == <<"'"," ","t","o"," ","'">>

Quote == <<"'">>

\* format!("Unknown source node '{}'", edge.source)
unknown_source_warning(edge) == UnknownSourceText \o edge.source \o Quote

\* format!("Unknown target node '{}'", edge.target)
unknown_target_warning(edge) == UnknownTargetText \o edge.target \o Quote

\* format!("Could not find route from '{}' to '{}'", edge.source, edge.target)
no_route_warning(edge) == NoRouteText \o edge.source \o ToText \o edge.target \o Quote

\* The match on (source_pos, target_pos) for the arms that need no search.
unknown_warning(edge, source_pos, target_pos) ==
    IF source_pos = None THEN unknown_source_warning(edge)
                         ELSE unknown_target_warning(edge)

Idle ==
    /\ source = None /\ target = None /\ pending = {}
    /\ task_results = <<>> /\ finished = {} /\ search_results = <<>>
    /\ initial_dir = None /\ first_lanes = <<>>
    /\ open = {} /\ best_g = <<>> /\ came_from = <<>>

\* push_result with the label of the edge dropped.
push_result_unlabelled(res, edge, result) ==
    Append(res, <<[edge EXCEPT !.label = None], result>>)

\* push_result that puts the pair in front of the results pushed before it.
push_result_front(res, edge, result) == <<<<edge, result>>>> \o res

\* results.push((edge.clone(), result))
push_result(res, edge, result) == Append(res, <<edge, result>>)

\* Lines 36-49: the lookup, the graph, the tracker and the result vector.
Begin ==
    /\ pc = "start"
    /\ name_to_pos' = name_to_pos_of(nodes)
    /\ graph' = RoutingGraph_build(positions_of(nodes),
                                   config.h_lane_capacity, config.v_lane_capacity)
    /\ occupancy' = LaneOccupancy_new
    /\ results' = <<>>
    /\ next_edge' = 1
    /\ pc' = "loop"
    /\ UNCHANGED <<edges, input_vars, edge_vars, par_vars,
                   astar_vars, harness_vars, ser_vars>>

\* An edge with an unknown endpoint: a Failure, nothing claimed.
UnknownEndpoint ==
    /\ pc = "loop" /\ next_edge <= Len(edges)
    /\ LET edge == edges[next_edge]
           source_pos == get(name_to_pos, edge.source)
           target_pos == get(name_to_pos, edge.target)
       IN  /\ source_pos = None \/ target_pos = None
           /\ results' = push_result(results, edge,
                  Failure(unknown_warning(edge, source_pos, target_pos)))
    /\ next_edge' = next_edge + 1
    /\ UNCHANGED <<edges, input_vars, pc, call_vars, occupancy, edge_vars, par_vars, astar_vars, harness_vars, ser_vars>>

\* source == target: find_best_route returns the trivial route at once, and
\* the orchestrator claims it (no waypoint pair, so nothing is claimed).
SelfEdge ==
    /\ pc = "loop" /\ next_edge <= Len(edges)
    /\ LET edge == edges[next_edge]
           source_pos == get(name_to_pos, edge.source)
           target_pos == get(name_to_pos, edge.target)
       IN  /\ source_pos # None /\ target_pos # None
           /\ source_pos = target_pos
           /\ LET route == trivial_route(from_int(source_pos[1][1], source_pos[1][2]))
              IN  /\ occupancy' = claim_route(occupancy, route)
                  /\ results' = push_result(results, edge, Success(route))
    /\ next_edge' = next_edge + 1
    /\ UNCHANGED <<edges, input_vars, pc, call_vars, edge_vars, par_vars, astar_vars, harness_vars, ser_vars>>

\* Both endpoints known and distinct: find_best_route dispatches four searches.
BeginSearch ==
    /\ pc = "loop" /\ next_edge <= Len(edges)
    /\ LET edge == edges[next_edge]
           source_pos == get(name_to_pos, edge.source)
           target_pos == get(name_to_pos, edge.target)
       IN  /\ source_pos # None /\ target_pos # None
           /\ source_pos # target_pos
           /\ source' = Some(from_int(source_pos[1][1], source_pos[1][2]))
           /\ target' = Some(from_int(target_pos[1][1], target_pos[1][2]))
    /\ pending' = Direction
    /\ task_results' = [i \in 1..4 |-> None]
    /\ finished' = {}
    /\ search_results' = [i \in 1..4 |-> None]
    /\ pc' = "dispatch"
    /\ UNCHANGED <<edges, input_vars, call_vars, occupancy, results, next_edge,
                   astar_vars, harness_vars, ser_vars>>

\* The four tasks read only the graph and the tracker and write only their own
\* locals, so the model runs them one after the other, in Direction::ALL order;
\* the order in which they complete is left open (Finish).
next_pending == CHOOSE d \in pending : \A e \in pending : Direction_ord(d) <= Direction_ord(e)

\* One task starts: the first step onto the adjacent junction, the early
\* returns, the seeding of the open set.  Each local is bound over a
\* one-element set: it has one value, computed once.
StartSearch ==
    /\ pc = "dispatch" /\ pending # {}
    /\ \E d \in {next_pending} :
       \E first_junction \in {step(source[1], d)} :
       \E first_seg \in {SegmentId_new(source[1], first_junction)} :
       \E lanes \in {available_lanes(occupancy, first_seg, capacity(graph, first_seg))} :
           /\ pending' = pending \ {d}
           /\ IF ~contains(graph, first_junction) \/ lanes = <<>>
              THEN /\ task_results' = [task_results EXCEPT ![Direction_ord(d)] = None]
                   /\ UNCHANGED <<pc, astar_vars>>
              ELSE /\ initial_dir' = Some(d)
                   /\ first_lanes' = lanes
                   /\ open' = {PqEntry(st) :
                                 st \in seed_states(first_junction, lanes, target[1], d)}
                   /\ best_g' = [k \in {StateKey(first_junction, lanes[i], d)
                                          : i \in DOMAIN lanes} |-> step_length]
                   /\ came_from' = <<>>
                   /\ pc' = "astar"
                   /\ UNCHANGED task_results
    /\ UNCHANGED <<edges, input_vars, call_vars, occupancy, results, next_edge,
                   edge_vars, finished, search_results, harness_vars, ser_vars>>

\* An entry BinaryHeap::pop may return: one that no other entry exceeds.
is_max(entry, heap) == \A o \in heap : PqEntry_cmp(o, entry) # "Greater"

\* pop that leaves the entry in the heap.
pop_keeping_entry(heap, entry) == heap

\* What open.pop() leaves in the heap when it returns `entry`.
pop(heap, entry) == heap \ {entry}

\* The search returns `result`: its locals are dropped.
search_returns(result) ==
    /\ task_results' = [task_results EXCEPT ![Direction_ord(initial_dir[1])] = result]
    /\ initial_dir' = None
    /\ first_lanes' = <<>>
    /\ open' = {}
    /\ best_g' = <<>>
    /\ came_from' = <<>>
    /\ pc' = "dispatch"

\* One iteration of `while let Some(entry) = open.pop()`.
AstarStep ==
    /\ pc = "astar" /\ open # {}
    /\ \E entry \in open :
         /\ is_max(entry, open)
         /\ LET current     == entry.state
                current_key == key(current)
                popped      == pop(open, entry)
            IN  IF current_key \in DOMAIN best_g /\ current.g_cost > best_g[current_key]
                THEN \* a better path to this state is known: continue
                     /\ open' = popped
                     /\ UNCHANGED <<pc, task_results, initial_dir, first_lanes,
                                    best_g, came_from>>
                ELSE IF current.coord = target[1]
                THEN search_returns(Some(reconstruct_route(
                         came_from, current_key, source[1], first_lanes, current)))
                ELSE \E new \in {{st \in successors(graph, occupancy, current,
                                                   source[1], target[1])
                                    : improves(best_g, st)}} :
                     LET new_keys == {key(st) : st \in new}
                         state_of(k) == CHOOSE st \in new : key(st) = k
                     IN  /\ best_g' = [k \in new_keys |-> state_of(k).g_cost] @@ best_g
                         /\ came_from' = [k \in new_keys |-> <<current_key, current.lane>>]
                                            @@ came_from
                         /\ open' = popped \cup {PqEntry(st) : st \in new}
                         /\ UNCHANGED <<pc, task_results, initial_dir, first_lanes>>
    /\ UNCHANGED <<edges, input_vars, call_vars, occupancy, results, next_edge,
                   edge_vars, pending, finished, search_results, harness_vars, ser_vars>>

\* The open set is empty: the search returns None.
AstarExhausted ==
    /\ pc = "astar" /\ open = {}
    /\ search_returns(None)
    /\ UNCHANGED <<edges, input_vars, call_vars, occupancy, results, next_edge,
                   edge_vars, pending, finished, search_results, harness_vars, ser_vars>>

\* Where the indexed parallel collect() puts the result of the task for d.
collect_slot(d) == Direction_ord(d)

\* A task completes, in any order among the four: its result is written to
\* its slot of the collected Vec.
Finish ==
    /\ pc = "dispatch" /\ pending = {}
    /\ \E d \in Direction \ finished :
         /\ finished' = finished \cup {d}
         /\ search_results' =
                [search_results EXCEPT ![collect_slot(d)] = task_results[Direction_ord(d)]]
    /\ UNCHANGED <<edges, input_vars, pc, call_vars, occupancy, results, next_edge,
                   edge_vars, pending, task_results, astar_vars, harness_vars, ser_vars>>

\* edge_result that reports a Failure whatever the search returned.
edge_result_always_failure(edge, best) == Failure(no_route_warning(edge))

\* The push that ends one iteration of the for loop over the edges.
edge_result(edge, best) ==
    IF best # None THEN Success(best[1]) ELSE Failure(no_route_warning(edge))

\* All four tasks completed: fold the collected results, claim the lanes of
\* the best route (or record the Failure), push the result.
Collect ==
    /\ pc = "dispatch" /\ pending = {} /\ finished = Direction
    /\ \E best \in {reduce_results(search_results, 1, None)} :
       LET edge == edges[next_edge]
       IN  /\ occupancy' = IF best # None THEN claim_route(occupancy, best[1])
                                          ELSE occupancy
           /\ results' = push_result(results, edge, edge_result(edge, best))
    /\ next_edge' = next_edge + 1
    /\ source' = None /\ target' = None
    /\ task_results' = <<>> /\ finished' = {} /\ search_results' = <<>>
    /\ pc' = "loop"
    /\ UNCHANGED <<edges, input_vars, call_vars, pending, astar_vars, harness_vars, ser_vars>>

\* The for loop is over: RoutingOutput { results } is returned.
Return ==
    /\ pc = "loop" /\ next_edge > Len(edges)
    /\ pc' = "done"
    /\ UNCHANGED <<edges, input_vars, call_vars, occupancy, results, next_edge,
                   edge_vars, par_vars, astar_vars, harness_vars, ser_vars>>

----------------------------------------------------------------------------
(* tests/determinism.rs: route_all_edges called again on related input *)

\* How many times route_all_edges is called on one scenario.
Iterations == 2

is_failure(res, i) == res[i][2].kind = "Failure"

\* The sequence s restricted to the (increasing) index sequence ks.
pick(s, ks) == [j \in DOMAIN ks |-> s[ks[j]]]

without(n, k) == [j \in 1..(n - 1) |-> IF j < k THEN j ELSE j + 1]

\* The index sequences of the first call's edges a later call may be given:
\* the first k of them (all of them for k the number of edges), or all but
\* one edge that failed in the first call.
rerun_choices(first_edges, first_results) ==
    {[j \in 1..k |-> j] : k \in 0..Len(first_edges)} \cup
    {without(Len(first_edges), k) :
        k \in {i \in DOMAIN first_results : is_failure(first_results, i)}}

\* The output of the call is kept (the first time) and route_all_edges is
\* called again with the same nodes and config.
Rerun ==
    /\ pc = "done" /\ iteration < Iterations
    /\ LET first_edges   == IF iteration = 1 THEN edges ELSE ref_edges
           first_results == IF iteration = 1 THEN results ELSE reference
       IN  /\ reference' = first_results
           /\ ref_edges' = first_edges
           /\ \E ks \in rerun_choices(first_edges, first_results) :
                /\ kept' = ks
                /\ edges' = pick(first_edges, ks)
    /\ iteration' = iteration + 1
    /\ name_to_pos' = <<>>
    /\ graph' = RoutingGraph_build(<<>>, 0, 0)
    /\ occupancy' = LaneOccupancy_new
    /\ results' = <<>>
    /\ next_edge' = 0
    /\ pc' = "start"
    /\ UNCHANGED <<input_vars, edge_vars, par_vars, astar_vars, ser_vars>>

----------------------------------------------------------------------------
(* Scenarios *)

\* Node positions range over columns 1..MaxCol and rows 1..MaxRow.
MaxCol == 3

MaxRow == 2

\* At most MaxEdges edges per call.
MaxEdges == 2

\* Lane capacities are 0 (none), 1 (a single lane) or MaxCap (several).
MaxCap == 3

NameA == <<"A">>

NameB == <<"B">>

NameC == <<"C">>

NameX == <<"X">>

NameY == <<"Y">>

NoLabel == None

Label == Some(<<"l">>)

Cells == {<<c, r>> : c \in 1..MaxCol, r \in 1..MaxRow}

\* Layouts in which a name is given to two nodes: B twice after A, and A
\* twice before B.
DuplicateLayouts ==
    {<<DiagramNode(NameA, 1, 1), DiagramNode(NameB, 2, 1), DiagramNode(NameB, 1, 2)>>,
     <<DiagramNode(NameA, 2, 1), DiagramNode(NameA, 1, 1), DiagramNode(NameB, 1, 2)>>}

\* No node at all; A at (1,1) and B anywhere (on A too); the same with C in
\* the cell right of A and B not left of C; and the layouts with a name
\* given twice.
Layouts ==
    {<<>>}
    \cup {<<DiagramNode(NameA, 1, 1), DiagramNode(NameB, p[1], p[2])>> : p \in Cells}
    \cup {<<DiagramNode(NameA, 1, 1), DiagramNode(NameC, 2, 1),
            DiagramNode(NameB, p[1], p[2])>> : p \in {q \in Cells : q[1] >= 3}}
    \cup DuplicateLayouts

\* Edges between known nodes, an edge from a node to itself, and edges
\* naming a node that does not exist.
EdgeChoices ==
    {DiagramEdge(NameA, NameB, NoLabel), DiagramEdge(NameB, NameA, Label),
     DiagramEdge(NameA, NameA, NoLabel),
     DiagramEdge(NameX, NameB, NoLabel), DiagramEdge(NameA, NameX, Label),
     DiagramEdge(NameX, NameY, NoLabel)}

EdgeLists == UNION {[1..n -> EdgeChoices] : n \in 0..MaxEdges}

CapValues == {0, 1, MaxCap}

Configs == {RoutingConfig(h, v) : h \in CapValues, v \in CapValues}

\* No serialize / parse round is under way.
SerIdle ==
    /\ ser_pc = "off"
    /\ ser_route = None
    /\ ser_text = <<>>
    /\ ser_parsed = None
    /\ ser_pieces = <<>>

Init ==
    /\ nodes \in Layouts
    /\ edges \in EdgeLists
    /\ config \in Configs
    /\ pc = "start"
    /\ name_to_pos = <<>>
    /\ graph = RoutingGraph_build(<<>>, 0, 0)
    /\ occupancy = LaneOccupancy_new
    /\ results = <<>>
    /\ next_edge = 0
    /\ Idle
    /\ iteration = 1
    /\ reference = <<>>
    /\ ref_edges = <<>>
    /\ kept = <<>>
    /\ SerIdle

Next ==
    \/ Begin
    \/ UnknownEndpoint
    \/ SelfEdge
    \/ BeginSearch
    \/ StartSearch
    \/ AstarStep
    \/ AstarExhausted
    \/ Finish
    \/ Collect
    \/ Return

\* One call of route_all_edges on every scenario.
Spec == Init /\ [][Next]_vars

NextRerun ==
    \/ Next
    \/ Rerun

\* One call of route_all_edges that is never suspended for ever: the thread
\* of route_all_edges runs each step it has, and the pool runs every task
\* that par_iter hands it.
SpecFair == Spec /\ WF_vars(Next)

\* The call, then the calls of the same scenario again (determinism.rs).
SpecRerun == Init /\ [][NextRerun]_vars

----------------------------------------------------------------------------
(* tests/serialization.rs: a route is serialized and the text parsed back *)

\* let s = route_to_string(&original)
Serialize ==
    /\ ser_pc = "route"
    /\ ser_text' = route_to_string(ser_route[1])
    /\ ser_pc' = "text"
    /\ UNCHANGED <<ser_route, ser_parsed, ser_pieces>>
    /\ UNCHANGED <<edges, input_vars, pc, call_vars, occupancy, results, next_edge,
                   edge_vars, par_vars, astar_vars, harness_vars>>

\* let parsed = string_to_route(&s)
Parse ==
    /\ ser_pc = "text"
    /\ ser_parsed' = string_to_route(ser_text)
    /\ ser_pc' = "parsed"
    /\ UNCHANGED <<ser_route, ser_text, ser_pieces>>
    /\ UNCHANGED <<edges, input_vars, pc, call_vars, occupancy, results, next_edge,
                   edge_vars, par_vars, astar_vars, harness_vars>>

\* Doubled columns of the serialized waypoints: -0.5, 0 and MaxSerCoord / 2.
MaxSerCoord == 21

\* Lanes of the serialized waypoints: -1, 0 and MaxSerLane.
MaxSerLane == 12

\* Routes of up to MaxSerLen waypoints are serialized.
MaxSerLen == 3

SerCoords == {GridCoord(c2, r2) : c2 \in {-1, 0, MaxSerCoord}, r2 \in {-1, 2}}

SerWaypoints == {Waypoint(c, l) : c \in SerCoords, l \in {-1, 0, MaxSerLane}}

SerRoutes ==
    {build_route_from_waypoints(wps) :
        wps \in UNION {[1..n -> SerWaypoints] : n \in 0..MaxSerLen}}

\* route_all_edges is not running.
RoutingIdle ==
    /\ nodes = <<>> /\ edges = <<>> /\ config = RoutingConfig(0, 0)
    /\ pc = "off"
    /\ name_to_pos = <<>>
    /\ graph = RoutingGraph_build(<<>>, 0, 0)
    /\ occupancy = LaneOccupancy_new
    /\ results = <<>>
    /\ next_edge = 0
    /\ Idle
    /\ iteration = 1
    /\ reference = <<>>
    /\ ref_edges = <<>>
    /\ kept = <<>>

\* Hand-written inputs of string_to_route are put together from at most
\* MaxPieces pieces.
MaxPieces == 5

\* The pieces: well-formed coordinate and lane tokens (among them the
\* coordinate (5.2499999999999999e0,NaN): seventeen digits whose nearest f64
\* is 5.25, an exponent and a NaN), the separator, white space (a
\* Windows line ending included), a character of no token, and tokens cut
\* short.
PieceChoices ==
    {[kind |-> "coord", text |-> <<"(", "1", ",", "1", ")">>],
     [kind |-> "coord", text |-> <<"(", " ", "1", ".", "5", ",", "2", " ", ")">>],
     [kind |-> "lane",  text |-> <<"L", "0">>],
     [kind |-> "lane",  text |-> <<"L", "-", "1">>],
     [kind |-> "dash",  text |-> <<"-">>],
     [kind |-> "coord",
      text |-> <<"(", "5", ".", "2", "4", "9", "9", "9", "9", "9", "9", "9", "9", "9",
                 "9", "9", "9", "9", "9", "9", "e", "0", ",", "N", "a", "N", ")">>],
     [kind |-> "space", text |-> <<" ">>],
     [kind |-> "space", text |-> <<"\r", "\n">>],
     [kind |-> "other", text |-> <<"x">>],
     [kind |-> "cut",   text |-> <<"(", "2">>],
     [kind |-> "cut",   text |-> <<"L">>]}

\* The input of complexity_computed_on_parse:
\* "(1,1)-L0-(1.5,1)-L1-(1.5,2)-L0-(2,2)".
complexity_computed_on_parse_input ==
    <<[kind |-> "coord", text |-> <<"(", "1", ",", "1", ")">>],
      [kind |-> "dash",  text |-> <<"-">>],
      [kind |-> "lane",  text |-> <<"L", "0">>],
      [kind |-> "dash",  text |-> <<"-">>],
      [kind |-> "coord", text |-> <<"(", "1", ".", "5", ",", "1", ")">>],
      [kind |-> "dash",  text |-> <<"-">>],
      [kind |-> "lane",  text |-> <<"L", "1">>],
      [kind |-> "dash",  text |-> <<"-">>],
      [kind |-> "coord", text |-> <<"(", "1", ".", "5", ",", "2", ")">>],
      [kind |-> "dash",  text |-> <<"-">>],
      [kind |-> "lane",  text |-> <<"L", "0">>],
      [kind |-> "dash",  text |-> <<"-">>],
      [kind |-> "coord", text |-> <<"(", "2", ",", "2", ")">>]>>

PieceLists ==
    UNION {[1..n -> PieceChoices] : n \in 0..MaxPieces}
        \cup {complexity_computed_on_parse_input}

RECURSIVE text_of(_)
\* The input string: the texts of the pieces one after the other.
text_of(pieces) ==
    IF pieces = <<>> THEN <<>> ELSE Head(pieces).text \o text_of(Tail(pieces))

\* assert!(string_to_route(input).is_none()) and the like: the parser is
\* called on a hand-written string.
ParseText ==
    /\ ser_pc = "input"
    /\ ser_parsed' = string_to_route(ser_text)
    /\ ser_pc' = "answered"
    /\ UNCHANGED <<ser_route, ser_text, ser_pieces>>
    /\ UNCHANGED <<edges, input_vars, pc, call_vars, occupancy, results, next_edge,
                   edge_vars, par_vars, astar_vars, harness_vars>>

InitSer ==
    /\ RoutingIdle
    /\ \/ /\ ser_pc = "route"
          /\ ser_route \in {Some(r) : r \in SerRoutes}
          /\ ser_pieces = <<>>
          /\ ser_text = <<>>
       \/ /\ ser_pc = "input"
          /\ ser_route = None
          /\ ser_pieces \in PieceLists
          /\ ser_text = text_of(ser_pieces)
    /\ ser_parsed = None

NextSer ==
    \/ Serialize
    \/ Parse
    \/ ParseText

\* A serialize / parse round on every route of SerRoutes, and a parse of
\* every hand-written input.
SpecSer == InitSer /\ [][NextSer]_vars

----------------------------------------------------------------------------
(* Properties of route_all_edges *)

succeeded(i) == results[i][2].kind = "Success"

failed(i) == results[i][2].kind = "Failure"

route_of(i) == results[i][2].route

\* The (segment, lane) pairs a route uses: a segment is travelled in the lane
\* of the waypoint it leaves.
uses(route) ==
    {[seg  |-> SegmentId_new(route.waypoints[k].coord, route.waypoints[k + 1].coord),
      lane |-> route.waypoints[k].lane] : k \in 1..(Len(route.waypoints) - 1)}

\* The i-th term (1-based) of the sequence 0, 1, -1, 2, -2, ...
nth_lane(i) == IF i % 2 = 0 THEN i \div 2 ELSE -(i \div 2)

\* The first n terms of that sequence.
spiral_prefix(n) == {nth_lane(i) : i \in 1..n}

\* The capacity the config gives to a segment of this orientation.
config_capacity(seg) ==
    IF seg_is_horizontal(seg) THEN config.h_lane_capacity ELSE config.v_lane_capacity

known(name) == name \in DOMAIN name_to_pos

position_of(name) == from_int(name_to_pos[name][1], name_to_pos[name][2])

node_positions == {from_int(nodes[n].col, nodes[n].row) : n \in DOMAIN nodes}

\* C1: two distinct edges of one call that both succeed never use the same
\* lane on a segment both routes traverse.
LaneExclusivity ==
    \A i, j \in DOMAIN results :
        (i < j /\ succeeded(i) /\ succeeded(j)) =>
            \A a \in uses(route_of(i)), b \in uses(route_of(j)) :
                a.seg = b.seg => a.lane # b.lane

\* Two routes of a finished call share a segment.
LaneExclusivityWitness ==
    /\ pc = "done"
    /\ \E i, j \in DOMAIN results :
         /\ i < j /\ succeeded(i) /\ succeeded(j)
         /\ \E a \in uses(route_of(i)), b \in uses(route_of(j)) : a.seg = b.seg

\* C2: after any prefix of the edges, every segment holds at most as many
\* claimed lanes as the capacity of its orientation, and each claimed lane is
\* among the first `capacity` terms of 0, 1, -1, 2, -2, ...
CapacityBound ==
    \A seg \in DOMAIN occupancy.claimed :
        /\ Cardinality(occupancy.claimed[seg]) <= config_capacity(seg)
        /\ occupancy.claimed[seg] \subseteq spiral_prefix(config_capacity(seg))

\* A segment is filled to its capacity and a further edge has been processed.
CapacityBoundWitness ==
    /\ pc = "done" /\ Len(results) = 2
    /\ succeeded(1) /\ succeeded(2)
    /\ \E seg \in DOMAIN occupancy.claimed :
         /\ Cardinality(occupancy.claimed[seg]) = config_capacity(seg)
         /\ \E a \in uses(route_of(1)) : a.seg = seg

\* C3: no waypoint of a successful route is the position of an input node
\* other than the position of the route's own source or target.
ObstacleAvoidance ==
    \A i \in DOMAIN results :
        succeeded(i) =>
            \A k \in DOMAIN route_of(i).waypoints :
                route_of(i).waypoints[k].coord \in node_positions =>
                    route_of(i).waypoints[k].coord \in
                        {position_of(results[i][1].source),
                         position_of(results[i][1].target)}

\* A successful route whose source and target have a third node on a
\* shortest way between them.
ObstacleAvoidanceWitness ==
    \E i \in DOMAIN results :
        /\ succeeded(i)
        /\ LET s == position_of(results[i][1].source)
               t == position_of(results[i][1].target)
           IN  \E c \in node_positions \ {s, t} :
                   manhattan_to(s, c) + manhattan_to(c, t) = manhattan_to(s, t)

\* C7: the output holds one pair per input edge, in input order, and the
\* i-th pair carries the i-th input edge unchanged (source, target, label).
OnePairPerEdge ==
    /\ \A i \in DOMAIN results : i <= Len(edges) /\ results[i][1] = edges[i]
    /\ pc = "done" => Len(results) = Len(edges)

\* A finished call with a labelled edge that succeeded and one that failed.
OnePairPerEdgeWitness ==
    /\ pc = "done"
    /\ \E i, j \in DOMAIN results :
         /\ succeeded(i) /\ results[i][1].label # None
         /\ failed(j) /\ results[j][1].label # None

\* Whether `word` occurs in `text`.
contains_text(text, word) ==
    \E k \in 0..(Len(text) - Len(word)) : SubSeq(text, k + 1, k + Len(word)) = word

\* C8: the warning of every failed edge names each endpoint that is unknown,
\* and names both endpoints when both are known and no route exists.
WarningNamesOffenders ==
    \A i \in DOMAIN results :
        failed(i) =>
            LET edge    == results[i][1]
                warning == results[i][2].warning
            IN  /\ ~known(edge.source) => contains_text(warning, edge.source)
                /\ ~known(edge.target) => contains_text(warning, edge.target)
                /\ (known(edge.source) /\ known(edge.target)) =>
                       /\ contains_text(warning, edge.source)
                       /\ contains_text(warning, edge.target)

\* Whether the finished call is the case of progressive lane filling: one or
\* more identical edges between two known nodes in adjacent cells, both
\* capacities at least the number of edges.
identical_adjacent_edges ==
    /\ pc = "done" /\ Len(edges) >= 1
    /\ \A i \in DOMAIN edges :
         edges[i].source = edges[1].source /\ edges[i].target = edges[1].target
    /\ known(edges[1].source) /\ known(edges[1].target)
    /\ manhattan_to(position_of(edges[1].source), position_of(edges[1].target)) = 2
    /\ config.h_lane_capacity >= Len(edges)
    /\ config.v_lane_capacity >= Len(edges)

\* C10: k identical edges between adjacent nodes, capacities at least k: all
\* succeed with routes of length 1.0 and the i-th uses the i-th lane of
\* 0, 1, -1, 2, -2, ... on each of its segments.
ProgressiveLaneFilling ==
    identical_adjacent_edges =>
        \A i \in DOMAIN results :
            /\ succeeded(i)
            /\ route_of(i).complexity.length = 2
            /\ \A a \in uses(route_of(i)) : a.lane = nth_lane(i)

----------------------------------------------------------------------------
(* Optimality: the least cost of a valid path, computed without the search *)

\* Lanes of the segment that are within capacity and unclaimed.
free_lanes(seg) ==
    {l \in spiral_prefix(config_capacity(seg)) :
        ~(seg \in DOMAIN occupancy.claimed /\ l \in occupancy.claimed[seg])}

\* An occupied cell center other than the source s or the target t.
walk_blocked(c, s, t) == is_cell_center(c) /\ c \in node_positions /\ c \notin {s, t}

\* The walks of one step: a graph node next to s, entered in a free lane.
first_steps(s) ==
    UNION {IF contains(graph, step(s, d))
           THEN {[coord |-> step(s, d), lane |-> l, dir |-> d] :
                    l \in free_lanes(SegmentId_new(s, step(s, d)))}
           ELSE {} : d \in Direction}

\* What one more step costs, in HALF units: 0.5, plus 1 at a turn, plus 1
\* for a lane change that is not at a turn.
step_cost(x, d, l) ==
    1 + (IF is_horizontal(x.dir) # is_horizontal(d) THEN 2
         ELSE IF l # x.lane THEN 2 ELSE 0)

\* The walks that extend x by one valid step of cost w.
walk_steps(x, s, t, w) ==
    UNION {IF \/ d = opposite(x.dir)
              \/ ~contains(graph, step(x.coord, d))
              \/ walk_blocked(step(x.coord, d), s, t)
           THEN {}
           ELSE {[coord |-> step(x.coord, d), lane |-> l, dir |-> d] :
                    l \in {m \in free_lanes(SegmentId_new(x.coord, step(x.coord, d))) :
                              step_cost(x, d, m) = w}}
           : d \in Direction}

RECURSIVE cheapest_from(_, _, _, _, _, _, _)
\* d1, d2, d3 are the (position, lane, direction) ends of valid walks whose
\* least cost is c - 1, c - 2, c - 3; seen are the ends of least cost below c.
\* The least cost of a valid walk that ends at t, None when there is none.
cheapest_from(s, t, c, d1, d2, d3, seen) ==
    IF \E x \in d1 : x.coord = t THEN Some(c - 1)
    ELSE IF d1 = {} /\ d2 = {} /\ d3 = {} THEN None
    ELSE LET dc == (UNION {walk_steps(x, s, t, 1) : x \in d1}
                      \cup UNION {walk_steps(x, s, t, 3) : x \in d3}) \ seen
         IN  cheapest_from(s, t, c + 1, dc, d1, d2, seen \cup dc)

cheapest_walk(s, t) == cheapest_from(s, t, 2, first_steps(s), {}, {}, first_steps(s))

RECURSIVE walk_cost_from(_, _)
\* The cost, in HALF units, of the steps of the waypoint list from step k on
\* (step k leads from waypoint k to waypoint k + 1 in the lane of waypoint k).
walk_cost_from(wps, k) ==
    IF k + 1 > Len(wps) THEN 0
    ELSE LET horizontal(j) == wps[j].coord.row2 = wps[j + 1].coord.row2
             penalty == IF k = 1 THEN 0
                        ELSE IF horizontal(k - 1) # horizontal(k) THEN 2
                        ELSE IF wps[k - 1].lane # wps[k].lane THEN 2 ELSE 0
         IN  1 + penalty + walk_cost_from(wps, k + 1)

\* The four searches of the current edge have all been collected.
searches_collected == pc = "dispatch" /\ pending = {} /\ finished = Direction

\* C5: the route find_best_route returns costs no more than any valid path
\* (0.5 per step + 1 per turn + 1 per lane change not at a turn), and it
\* returns none only when no valid path exists.
Optimality ==
    searches_collected =>
        LET best  == reduce_results(search_results, 1, None)
            least == cheapest_walk(source[1], target[1])
        IN  IF best = None THEN least = None
            ELSE /\ least # None
                 /\ walk_cost_from(best[1].waypoints, 1) <= least[1]

\* A route was found against claimed lanes, and it costs more than its
\* number of steps: it turns or changes lane.
OptimalityWitness ==
    /\ searches_collected
    /\ DOMAIN occupancy.claimed # {}
    /\ LET best == reduce_results(search_results, 1, None)
       IN  /\ best # None
           /\ walk_cost_from(best[1].waypoints, 1) > Len(best[1].waypoints) - 1

----------------------------------------------------------------------------
(* Properties of repeated calls *)

\* What determinism.rs compares: per edge, the serialized route of a Success
\* or format!("FAIL:{}", warning) of a Failure.
output_text(res) ==
    [i \in DOMAIN res |->
        IF res[i][2].kind = "Success"
        THEN route_to_string(res[i][2].route)
        ELSE <<"F", "A", "I", "L", ":">> \o res[i][2].warning]

\* The current call was given all the edges of the first call.
same_input == kept = [j \in 1..Len(ref_edges) |-> j]

\* C4: a second call on the same nodes, edges and config returns, edge by
\* edge, the same serialized route or the same warning as the first call,
\* whatever the completion order of the four searches in either call.
Determinism ==
    (pc = "done" /\ iteration >= 2 /\ same_input) =>
        output_text(results) = output_text(reference)

\* A second call has finished on two edges that contend for a segment.
DeterminismWitness ==
    /\ pc = "done" /\ iteration >= 2 /\ same_input
    /\ Len(results) = 2 /\ succeeded(1) /\ succeeded(2)
    /\ \E a \in uses(route_of(1)), b \in uses(route_of(2)) : a.seg = b.seg

\* A step that pushes a Failure leaves the occupancy tracker as it was.
failure_claims_nothing ==
    (Len(results') = Len(results) + 1 /\ results'[Len(results')][2].kind = "Failure")
        => occupancy' = occupancy

\* A call given the first call's edges less one that failed ends with the
\* first call's results for the edges it was given.
removal_changes_nothing ==
    (/\ pc' = "done" /\ iteration' >= 2
     /\ \E k \in DOMAIN reference' :
            is_failure(reference', k) /\ kept' = without(Len(ref_edges'), k))
        => results' = pick(reference', kept')

\* C6: an edge that fails claims no lane (the tracker after it equals the
\* tracker before it), and the results of the other edges equal the results
\* of the call with the failing edge removed from the input.
FailureIsolation == [][failure_claims_nothing /\ removal_changes_nothing]_vars

\* A call without the failed first edge of the first call has finished, and
\* the edge after it had succeeded in the first call.
FailureIsolationWitness ==
    /\ pc = "done" /\ iteration >= 2
    /\ Len(ref_edges) = 2 /\ kept = <<2>>
    /\ reference[1][2].kind = "Failure" /\ reference[2][2].kind = "Success"
    /\ Len(results) = 1

----------------------------------------------------------------------------
(* Properties of the serializer *)

\* C9 as worded: for any route, parsing its serialization gives a route with
\* the same ordered (coordinate, lane) waypoints.
RoundTrip ==
    ser_pc = "parsed" =>
        /\ ser_parsed # None
        /\ ser_parsed[1].waypoints = ser_route[1].waypoints

\* Whether the route has at least two waypoints and the sentinel lane 0 on
\* its last waypoint.
proper_route(route) ==
    /\ Len(route.waypoints) >= 2
    /\ route.waypoints[Len(route.waypoints)].lane = 0

\* C9, amended: for any route of at least two waypoints whose last waypoint
\* has lane 0, parsing its serialization gives a route with the same ordered
\* (coordinate, lane) waypoints.
RoundTripOfProperRoute ==
    (ser_pc = "parsed" /\ proper_route(ser_route[1])) =>
        /\ ser_parsed # None
        /\ ser_parsed[1].waypoints = ser_route[1].waypoints

\* A route of three waypoints with a half-integer negative coordinate, a
\* two-digit coordinate and a negative lane has been serialized and parsed.
RoundTripWitness ==
    /\ ser_pc = "parsed" /\ proper_route(ser_route[1])
    /\ Len(ser_route[1].waypoints) = 3
    /\ ser_route[1].waypoints[1].coord = GridCoord(-1, 2)
    /\ ser_route[1].waypoints[1].lane = -1
    /\ ser_route[1].waypoints[2].coord.col2 = MaxSerCoord
    /\ ser_route[1].waypoints[2].lane = MaxSerLane
    /\ ser_parsed # None

----------------------------------------------------------------------------
(* Center preference *)

\* No edge before the i-th one of the call claimed a lane: the i-th edge was
\* routed against an empty LaneOccupancy.
routed_on_empty_occupancy(i) ==
    \A j \in 1..(i - 1) : failed(j) \/ uses(route_of(j)) = {}

\* C11: with both capacities at least 1, an edge that is routed against an
\* empty occupancy and succeeds has lane 0 on every waypoint but the last,
\* that is on every segment of its route.
CenterPreference ==
    (config.h_lane_capacity >= 1 /\ config.v_lane_capacity >= 1) =>
        \A i \in DOMAIN results :
            (succeeded(i) /\ routed_on_empty_occupancy(i)) =>
                \A k \in 1..(Len(route_of(i).waypoints) - 1) :
                    route_of(i).waypoints[k].lane = 0

\* An edge routed against an empty occupancy got a route with a turn, where
\* several lanes were free on each of its segments.
CenterPreferenceWitness ==
    /\ config.h_lane_capacity > 1 /\ config.v_lane_capacity > 1
    /\ \E i \in DOMAIN results :
         /\ succeeded(i) /\ routed_on_empty_occupancy(i)
         /\ route_of(i).complexity.turns >= 1
         /\ Len(route_of(i).waypoints) >= 3

----------------------------------------------------------------------------
(* Adjacency *)

\* C12: in every successful route each pair of consecutive waypoints is one
\* step apart (Manhattan distance 1 in doubled coordinates) and is joined by
\* a segment of the routing graph.
Adjacency ==
    \A i \in DOMAIN results :
        succeeded(i) =>
            \A k \in 1..(Len(route_of(i).waypoints) - 1) :
                LET a == route_of(i).waypoints[k].coord
                    b == route_of(i).waypoints[k + 1].coord
                IN  /\ manhattan_to(a, b) = 1
                    /\ is_graph_segment(graph, SegmentId_new(a, b))
                    /\ \E j \in DOMAIN neighbors(graph, a) :
                           neighbors(graph, a)[j].neighbor = b

\* A successful route with a turn: consecutive waypoints in both axes.
AdjacencyWitness ==
    \E i \in DOMAIN results :
        /\ succeeded(i)
        /\ Len(route_of(i).waypoints) >= 5
        /\ \E k, l \in 1..(Len(route_of(i).waypoints) - 1) :
               /\ route_of(i).waypoints[k].coord.row2 = route_of(i).waypoints[k + 1].coord.row2
               /\ route_of(i).waypoints[l].coord.col2 = route_of(i).waypoints[l + 1].coord.col2

----------------------------------------------------------------------------
(* No dependency on later edges *)

\* The current call was given the first Len(kept) edges of the first call.
prefix_input == kept = [j \in 1..Len(kept) |-> j]

\* C13: the results of a call on the first k edges of a batch, with the same
\* nodes and config, equal the first k results of the call on the whole
\* batch, for every k.
PrefixIndependence ==
    (pc = "done" /\ iteration >= 2 /\ prefix_input) =>
        results = SubSeq(reference, 1, Len(kept))

\* A call on the first edge alone has finished, where the whole batch had a
\* second edge whose route shares a segment with the route of the first.
PrefixIndependenceWitness ==
    /\ pc = "done" /\ iteration >= 2
    /\ kept = <<1>> /\ Len(ref_edges) = 2
    /\ reference[1][2].kind = "Success" /\ reference[2][2].kind = "Success"
    /\ \E a \in uses(reference[1][2].route), b \in uses(reference[2][2].route) :
           a.seg = b.seg
    /\ succeeded(1)

----------------------------------------------------------------------------
(* Zero capacity *)

\* Both endpoints of the i-th edge are known nodes.
endpoints_known(i) == known(results[i][1].source) /\ known(results[i][1].target)

source_of(i) == position_of(results[i][1].source)

target_of(i) == position_of(results[i][1].target)

\* The endpoints of the i-th edge are in one column, one row apart.
vertically_adjacent(i) ==
    /\ source_of(i).col2 = target_of(i).col2
    /\ abs(source_of(i).row2 - target_of(i).row2) = 2

\* The endpoints of the i-th edge are in one row, one column apart.
horizontally_adjacent(i) ==
    /\ source_of(i).row2 = target_of(i).row2
    /\ abs(source_of(i).col2 - target_of(i).col2) = 2

\* How many edges before the i-th one claimed lanes.
claimants_before(i) ==
    Cardinality({j \in 1..(i - 1) : succeeded(j) /\ uses(route_of(j)) # {}})

\* C14: with h_lane_capacity 0 no successful route has a horizontal segment
\* and with v_lane_capacity 0 none has a vertical segment; an edge between
\* vertically adjacent nodes still gets a route when only the horizontal
\* capacity is 0, one between horizontally adjacent nodes when only the
\* vertical capacity is 0 (as long as fewer edges claimed lanes before it
\* than the other capacity), and with both capacities 0 every edge between
\* two different positions fails.
ZeroCapacity ==
    \A i \in DOMAIN results :
        /\ (config.h_lane_capacity = 0 /\ succeeded(i)) =>
               \A u \in uses(route_of(i)) : ~seg_is_horizontal(u.seg)
        /\ (config.v_lane_capacity = 0 /\ succeeded(i)) =>
               \A u \in uses(route_of(i)) : ~seg_is_vertical(u.seg)
        /\ (/\ config.h_lane_capacity = 0
            /\ endpoints_known(i) /\ vertically_adjacent(i)
            /\ claimants_before(i) < config.v_lane_capacity) => succeeded(i)
        /\ (/\ config.v_lane_capacity = 0
            /\ endpoints_known(i) /\ horizontally_adjacent(i)
            /\ claimants_before(i) < config.h_lane_capacity) => succeeded(i)
        /\ (/\ config.h_lane_capacity = 0 /\ config.v_lane_capacity = 0
            /\ endpoints_known(i) /\ source_of(i) # target_of(i)) => failed(i)

\* With capacities (0, MaxCap) two edges between vertically adjacent nodes
\* both got a route.
ZeroCapacityWitness ==
    /\ config = RoutingConfig(0, MaxCap)
    /\ Len(results) = 2
    /\ endpoints_known(1) /\ vertically_adjacent(1) /\ succeeded(1)
    /\ endpoints_known(2) /\ vertically_adjacent(2) /\ succeeded(2)
    /\ uses(route_of(1)) # {} /\ uses(route_of(2)) # {}

----------------------------------------------------------------------------
(* Self edge *)

\* The edge about to be handled has two known endpoints at one position.
self_edge_is_next ==
    /\ pc = "loop" /\ next_edge <= Len(edges)
    /\ known(edges[next_edge].source) /\ known(edges[next_edge].target)
    /\ position_of(edges[next_edge].source) = position_of(edges[next_edge].target)

\* The step pushes, for that edge, a Success of exactly one waypoint at the
\* position with complexity (0, 0, 0), and leaves the tracker as it was.
self_edge_step ==
    /\ Len(results') = Len(results) + 1
    /\ LET pushed == results'[Len(results')]
       IN  /\ pushed[1] = edges[next_edge]
           /\ pushed[2].kind = "Success"
           /\ pushed[2].route.waypoints =
                  <<Waypoint(position_of(edges[next_edge].source), 0)>>
           /\ pushed[2].route.complexity.length = 0
           /\ pushed[2].route.complexity.turns = 0
           /\ pushed[2].route.complexity.lane_changes = 0
    /\ occupancy' = occupancy

\* C15: an edge whose source and target resolve to one position (one node,
\* or two nodes of different names at one position) gets a Success with
\* exactly one waypoint at that position and complexity length 0, turns 0,
\* lane_changes 0, whatever the capacities and the occupancy, and the
\* occupancy tracker is left unchanged.
SelfEdgeTrivial == [][self_edge_is_next => self_edge_step]_vars

\* An edge from a node to itself got its route after another edge had
\* claimed lanes.
SelfEdgeTrivialWitness ==
    /\ Len(results) = 2
    /\ succeeded(1) /\ uses(route_of(1)) # {}
    /\ results[2][1].source = results[2][1].target
    /\ succeeded(2) /\ Len(route_of(2).waypoints) = 1

\* An edge between two nodes of different names at one position got its
\* route, with both capacities 0.
SelfEdgeSamePositionReached ==
    /\ config = RoutingConfig(0, 0)
    /\ Len(results) >= 1
    /\ results[1][1].source # results[1][1].target
    /\ succeeded(1) /\ Len(route_of(1).waypoints) = 1

----------------------------------------------------------------------------
(* Duplicate node names *)

\* Whether some input node has this name.
is_named(name) == \E n \in DOMAIN nodes : nodes[n].name = name

\* The position of the last node of the input list that has this name.
last_position_named(name) ==
    LET n == SetMax({m \in DOMAIN nodes : nodes[m].name = name})
    IN  from_int(nodes[n].col, nodes[n].row)

\* Whether the input list has two nodes of this name at different positions.
is_duplicated(name) ==
    \E m, n \in DOMAIN nodes :
        /\ nodes[m].name = name /\ nodes[n].name = name
        /\ <<nodes[m].col, nodes[m].row>> # <<nodes[n].col, nodes[n].row>>

\* C16: an edge that refers to a name is routed from / to the position of
\* the last node of the input list with that name: the first waypoint of its
\* route is at the last position of its source name and the last waypoint at
\* the last position of its target name.
LastDuplicateWins ==
    \A i \in DOMAIN results :
        /\ succeeded(i) =>
             /\ is_named(results[i][1].source) /\ is_named(results[i][1].target)
             /\ route_of(i).waypoints[1].coord =
                    last_position_named(results[i][1].source)
             /\ route_of(i).waypoints[Len(route_of(i).waypoints)].coord =
                    last_position_named(results[i][1].target)
        /\ (is_named(results[i][1].source) /\ is_named(results[i][1].target)) =>
             /\ position_of(results[i][1].source) =
                    last_position_named(results[i][1].source)
             /\ position_of(results[i][1].target) =
                    last_position_named(results[i][1].target)

\* Two edges got routes, one from and one to a name that two nodes at
\* different positions share.
LastDuplicateWinsWitness ==
    /\ Len(results) = 2 /\ succeeded(1) /\ succeeded(2)
    /\ is_duplicated(results[1][1].source) /\ results[1][1].target # results[1][1].source
    /\ is_duplicated(results[2][1].target) /\ results[2][1].target # results[2][1].source
    /\ Len(route_of(1).waypoints) >= 3 /\ Len(route_of(2).waypoints) >= 3

----------------------------------------------------------------------------
(* Parse failures *)

kinds_of(pieces) == [i \in DOMAIN pieces |-> pieces[i].kind]

RECURSIVE drop_leading_space(_)
drop_leading_space(ks) ==
    IF ks # <<>> /\ Head(ks) = "space" THEN drop_leading_space(Tail(ks)) ELSE ks

RECURSIVE drop_trailing_space(_)
drop_trailing_space(ks) ==
    IF ks # <<>> /\ ks[Len(ks)] = "space"
    THEN drop_trailing_space(SubSeq(ks, 1, Len(ks) - 1)) ELSE ks

\* The kinds of the pieces of the input between its leading and trailing
\* white space, separators left out.
token_kinds(pieces) ==
    SelectSeq(drop_trailing_space(drop_leading_space(kinds_of(pieces))),
              LAMBDA k : k # "dash")

\* coordinate, lane, coordinate, ..., coordinate with at least two
\* coordinates.
alternating(ks) ==
    /\ Len(ks) >= 3 /\ Len(ks) % 2 = 1
    /\ \A i \in DOMAIN ks : ks[i] = (IF i % 2 = 1 THEN "coord" ELSE "lane")

only_tokens(ks) == \A i \in DOMAIN ks : ks[i] \in {"coord", "lane"}

\* C17: string_to_route returns a route only when its input is made of the
\* tokens coordinate, lane, coordinate, ..., coordinate with at least two
\* coordinates, and then the route has one waypoint per coordinate; for an
\* empty or all-white-space string, a single coordinate, two coordinates
\* with no lane between them, lane tokens only, an even number of tokens or
\* an unexpected character it returns no result.
ParseRejectsMalformed ==
    ser_pc = "answered" =>
        LET ks == token_kinds(ser_pieces)
        IN  /\ ser_parsed # None =>
                 /\ alternating(ks)
                 /\ Len(ser_parsed[1].waypoints) = (Len(ks) + 1) \div 2
            /\ (\A i \in DOMAIN ser_text : is_whitespace(ser_text[i])) => ser_parsed = None
            /\ ks = <<"coord">> => ser_parsed = None
            /\ ks = <<"coord", "coord">> => ser_parsed = None
            /\ (\A i \in DOMAIN ks : ks[i] = "lane") => ser_parsed = None
            /\ (only_tokens(ks) /\ Len(ks) % 2 = 0) => ser_parsed = None
            /\ (\E i \in DOMAIN ks : ks[i] \in {"other", "space"}) => ser_parsed = None

\* The parser has answered an input that starts as a well-formed route and
\* goes on with a lane token and an unexpected character.
ParseRejectsMalformedWitness ==
    /\ ser_pc = "answered"
    /\ kinds_of(ser_pieces) = <<"coord", "lane", "coord", "lane", "other">>
    /\ ser_parsed = None

\* The parser has returned a route of three waypoints for a well-formed
\* input.
ParseAcceptsReached ==
    /\ ser_pc = "answered"
    /\ kinds_of(ser_pieces) = <<"coord", "lane", "coord", "lane", "coord">>
    /\ ser_parsed # None /\ Len(ser_parsed[1].waypoints) = 3

----------------------------------------------------------------------------
(* Termination *)

\* C18: route_all_edges comes to return, with one result for every edge;
\* it returns only after every single-direction search it started has
\* returned, on popping a state at the target or on an empty open set (the
\* two ways out of the search loop), so every search terminates too.
Termination == <>(pc = "done" /\ Len(results) = Len(edges) /\ open = {})

\* A call has returned in which the second edge found no route after the
\* first had claimed lanes: searches ended on the target and on an empty open
\* set.
TerminationWitness ==
    /\ pc = "done" /\ Len(results) = 2
    /\ succeeded(1) /\ uses(route_of(1)) # {}
    /\ failed(2) /\ endpoints_known(2)

----------------------------------------------------------------------------
(* Route endpoints *)

\* C19: the first waypoint of every successful route is at the source
\* position of its edge and the last at the target position, both cell
\* centers, and the lane of the last waypoint is the sentinel 0.
RouteEndpoints ==
    \A i \in DOMAIN results :
        succeeded(i) =>
            LET wps   == route_of(i).waypoints
                first == wps[1]
                last  == wps[Len(wps)]
            IN  /\ Len(wps) >= 1
                /\ endpoints_known(i)
                /\ first.coord = source_of(i)
                /\ last.coord = target_of(i)
                /\ is_cell_center(first.coord) /\ is_cell_center(last.coord)
                /\ first.coord \in node_positions /\ last.coord \in node_positions
                /\ last.lane = 0

\* The second of two routes reached its target in a lane other than 0.
RouteEndpointsWitness ==
    /\ Len(results) = 2 /\ succeeded(1) /\ succeeded(2)
    /\ LET wps == route_of(2).waypoints
       IN  /\ Len(wps) >= 3
           /\ wps[Len(wps) - 1].lane # 0
           /\ wps[Len(wps)].lane = 0

----------------------------------------------------------------------------
(* Order of the four searches *)

\* The orders in which the four results may be reduced.
ReductionOrders ==
    {p \in [1..4 -> 1..4] : \A i, j \in 1..4 : p[i] = p[j] => i = j}

\* The routes the searches found.
found_routes == {search_results[i][1] : i \in {j \in 1..4 : search_results[j] # None}}

\* Route a comes before route b: lower RouteComplexity, or the same and a
\* lexicographically smaller sequence of (doubled col, doubled row, lane).
comes_before(a, b) ==
    \/ RouteComplexity_cmp(a.complexity, b.complexity) = "Less"
    \/ /\ RouteComplexity_cmp(a.complexity, b.complexity) = "Equal"
       /\ vec_cmp(route_tiebreak(a), route_tiebreak(b), 1) = "Less"

\* C20: once the four searches have completed, in whatever order, each result
\* is in the slot of its direction, the route chosen is the unique minimum
\* of the routes found under RouteComplexity order followed by the
\* lexicographic order of the waypoint sequences, and reducing the four
\* results in any permutation yields the same route.
OrderIndependence ==
    searches_collected =>
        LET best == reduce_results(search_results, 1, None)
        IN  /\ \A d \in Direction :
                   search_results[collect_slot(d)] = task_results[Direction_ord(d)]
            /\ (best = None) = (found_routes = {})
            /\ best # None =>
                   /\ best[1] \in found_routes
                   /\ \A r \in found_routes \ {best[1]} : comes_before(best[1], r)
            /\ \A p \in ReductionOrders :
                   reduce_results([i \in 1..4 |-> search_results[p[i]]], 1, None) = best

\* Two searches found different routes of equal complexity: the tie-break
\* chooses between them.
OrderIndependenceWitness ==
    /\ searches_collected
    /\ \E a, b \in found_routes :
           /\ a # b
           /\ a.complexity = b.complexity
           /\ reduce_results(search_results, 1, None) = Some(a)

----------------------------------------------------------------------------
(* Frame of the searches and of the claim step *)

\* The (segment, lane) pairs the tracker holds.
claims_of(occ) ==
    UNION {{[seg |-> s, lane |-> l] : l \in occ.claimed[s]} : s \in DOMAIN occ.claimed}

\* find_best_route is under way: its searches are dispatched or running.
in_find_best_route == pc \in {"dispatch", "astar"}

\* From the start of find_best_route to its end (the step that folds the
\* results excluded) the graph and the tracker stay as they are.
searches_only_read ==
    (in_find_best_route /\ pc' \in {"dispatch", "astar"}) =>
        graph' = graph /\ occupancy' = occupancy

\* A step that changes the tracker pushes a Success and adds the (segment,
\* lane) pairs of its route, nothing else.
tracker_changes_by_claim ==
    (occupancy' # occupancy) =>
        /\ Len(results') = Len(results) + 1
        /\ results'[Len(results')][2].kind = "Success"
        /\ claims_of(occupancy') =
               claims_of(occupancy) \cup uses(results'[Len(results')][2].route)

\* After the step the tracker holds the claims of the successful routes so
\* far, and none of the claims it held is lost.
tracker_is_union_of_claims ==
    /\ claims_of(occupancy') =
           UNION {uses(results'[i][2].route) :
                    i \in {j \in DOMAIN results' : results'[j][2].kind = "Success"}}
    /\ claims_of(occupancy) \subseteq claims_of(occupancy')

\* C21: the searches leave the graph and the occupancy tracker unchanged from
\* the start to the end of find_best_route; the tracker changes only in the
\* claim step after a route was returned, by adding the (segment, lane) pairs
\* of that route; after k edges it holds the union of the claims of the
\* successful routes among them and never loses a claim.
SearchesOnlyRead ==
    [][searches_only_read /\ tracker_changes_by_claim /\ tracker_is_union_of_claims]_vars

\* Two routes were claimed on a shared segment: the tracker holds two lanes
\* of it.
SearchesOnlyReadWitness ==
    /\ Len(results) = 2 /\ succeeded(1) /\ succeeded(2)
    /\ \E s \in DOMAIN occupancy.claimed : Cardinality(occupancy.claimed[s]) = 2
    /\ claims_of(occupancy) = uses(route_of(1)) \cup uses(route_of(2))

----------------------------------------------------------------------------
(* Graph bounds *)

\* The graph of the call has been built from a non-empty node list (looked
\* at between two edges and at the end of the call).
graph_built == pc \in {"loop", "done"} /\ nodes # <<>>

min_col_of_nodes == SetMin({nodes[n].col : n \in DOMAIN nodes})

max_col_of_nodes == SetMax({nodes[n].col : n \in DOMAIN nodes})

min_row_of_nodes == SetMin({nodes[n].row : n \in DOMAIN nodes})

max_row_of_nodes == SetMax({nodes[n].row : n \in DOMAIN nodes})

\* The positions up to `margin` doubled units beyond the bounding box of the
\* nodes, in every direction.
box_with_margin(margin) ==
    {GridCoord(c2, r2) :
        c2 \in (2 * min_col_of_nodes - margin)..(2 * max_col_of_nodes + margin),
        r2 \in (2 * min_row_of_nodes - margin)..(2 * max_row_of_nodes + margin)}

\* The keys of the adjacency map are these positions, each one a cell
\* center, a junction or a street intersection.
graph_nodes_are(box) ==
    /\ node_set(graph) = box
    /\ DOMAIN adjacency(graph) = box
    /\ \A c \in box :
           /\ contains(graph, c)
           /\ is_cell_center(c) \/ is_junction(c) \/ is_street_intersection(c)

\* C22 as worded: the graph extends one grid unit beyond the bounding box:
\* doubled columns 2*min_col - 2 .. 2*max_col + 2, doubled rows
\* 2*min_row - 2 .. 2*max_row + 2.
GraphBoundsOneUnit == graph_built => graph_nodes_are(box_with_margin(2))

\* C22, amended: the graph extends half a grid unit beyond the bounding box
\* of the nodes in every direction: its nodes are exactly the positions of
\* doubled column 2*min_col - 1 .. 2*max_col + 1 and doubled row
\* 2*min_row - 1 .. 2*max_row + 1, every one of them a graph node.
GraphBoundsHalfUnit == graph_built => graph_nodes_are(box_with_margin(1))

\* A graph was built for nodes in two columns and two rows; the street
\* intersection outside its corner is the outermost node.
GraphBoundsWitness ==
    /\ graph_built
    /\ min_col_of_nodes < max_col_of_nodes /\ min_row_of_nodes < max_row_of_nodes
    /\ contains(graph, GridCoord(2 * max_col_of_nodes + 1, 2 * max_row_of_nodes + 1))
    /\ ~contains(graph, GridCoord(2 * max_col_of_nodes + 2, 2 * max_row_of_nodes + 2))

----------------------------------------------------------------------------
(* Open-set priority *)

\* The order of two queued entries by f, then g, then position (row-major),
\* then absolute lane, then lane (the smaller first for sign 1, the larger
\* first for sign -1), then direction: "Less" when a is to be popped before b.
pop_order(a, b, sign) ==
    then(cmp(a.f_cost, b.f_cost),
    then(cmp(a.g_cost, b.g_cost),
    then(then(cmp(a.coord.row2, b.coord.row2), cmp(a.coord.col2, b.coord.col2)),
    then(cmp(abs(a.lane), abs(b.lane)),
    then(cmp(sign * a.lane, sign * b.lane),
         cmp(Direction_ord(a.direction), Direction_ord(b.direction)))))))

\* C23: the entry popped next from the open set is the first in the order
\* lowest f, then lowest g, then smallest position (row-major), then smallest
\* absolute lane, then the larger lane (+k before -k), then direction.
OpenSetPriority ==
    pc = "astar" =>
        \A entry \in open :
            is_max(entry, open) =>
                \A o \in open \ {entry} : pop_order(entry, o, -1) = "Less"

\* What the heap does: the same order with the smaller lane first (-k before
\* +k).
OpenSetPriorityNegativeFirst ==
    pc = "astar" =>
        \A entry \in open :
            is_max(entry, open) =>
                \A o \in open \ {entry} : pop_order(entry, o, 1) = "Less"

\* The open set holds two states that differ only in lanes +k and -k, and
\* the state of lane -k is the one popped next.
NegativeLanePoppedFirst ==
    /\ pc = "astar"
    /\ \E entry, o \in open :
           /\ is_max(entry, open)
           /\ entry.lane < 0 /\ o.lane = -entry.lane
           /\ o.f_cost = entry.f_cost /\ o.g_cost = entry.g_cost
           /\ o.coord = entry.coord /\ o.direction = entry.direction

----------------------------------------------------------------------------
(* available_lanes *)

\* The segments of the routing graph of the call.
graph_segments ==
    {seg \in {SegmentId_new(c, step(c, d)) : c \in node_set(graph), d \in Direction} :
        is_graph_segment(graph, seg)}

\* The lanes the successful routes so far claimed on the segment.
lanes_claimed_by_routes(seg) ==
    {u.lane : u \in {v \in UNION {uses(route_of(i)) :
                                     i \in {j \in DOMAIN results : succeeded(j)}}
                          : v.seg = seg}}

\* The first n terms of 0, 1, -1, 2, -2, ... in this order (none for n <= 0).
spiral_terms(n) == [i \in 1..n |-> nth_lane(i)]

\* The capacities asked for: none, negative, and up to one more than MaxCap.
AskedCapacities == -1..(MaxCap + 1)

\* C24: available_lanes(segment, capacity) is, in this order, the unclaimed
\* members of the first `capacity` terms of 0, 1, -1, 2, -2, ...: empty for
\* capacity <= 0, no lane claimed on the segment, no lane outside those
\* terms; and is_available(segment, lane) is false exactly for the lanes
\* claimed on the segment before.
AvailableLanes ==
    pc \in {"loop", "done"} =>
        \A seg \in graph_segments :
            /\ \A cap \in AskedCapacities :
                   LET lanes == available_lanes(occupancy, seg, cap)
                   IN  /\ lanes = SelectSeq(spiral_terms(cap),
                                     LAMBDA l : l \notin lanes_claimed_by_routes(seg))
                       /\ cap <= 0 => lanes = <<>>
                       /\ \A k \in DOMAIN lanes :
                              /\ lanes[k] \notin lanes_claimed_by_routes(seg)
                              /\ lanes[k] \in spiral_prefix(cap)
            /\ \A l \in (-(MaxCap + 1))..(MaxCap + 1) :
                   is_available(occupancy, seg, l) = (l \notin lanes_claimed_by_routes(seg))

\* Two routes claimed lanes 0 and -1 of a segment of capacity 3: lane 1 alone
\* is available on it.
AvailableLanesWitness ==
    /\ pc \in {"loop", "done"}
    /\ \E seg \in graph_segments :
           /\ lanes_claimed_by_routes(seg) = {0, -1}
           /\ available_lanes(occupancy, seg, 3) = <<1>>
           /\ available_lanes(occupancy, seg, 0) = <<>>


----------------------------------------------------------------------------
(* Complexity of a waypoint sequence *)

\* The step from waypoint k to waypoint k + 1 runs along a row.
step_is_horizontal(wps, k) ==
    /\ wps[k].coord.row2 = wps[k + 1].coord.row2
    /\ wps[k].coord.col2 # wps[k + 1].coord.col2

\* The step from waypoint k to waypoint k + 1 runs along a column.
step_is_vertical(wps, k) ==
    /\ wps[k].coord.col2 = wps[k + 1].coord.col2
    /\ wps[k].coord.row2 # wps[k + 1].coord.row2

step_is_straight(wps, k) == step_is_horizontal(wps, k) \/ step_is_vertical(wps, k)

\* Travel switches between horizontal and vertical at the interior waypoint k.
turn_at(wps, k) ==
    \/ step_is_horizontal(wps, k - 1) /\ step_is_vertical(wps, k)
    \/ step_is_vertical(wps, k - 1) /\ step_is_horizontal(wps, k)

\* The lane of the step leaving waypoint k differs from the lane of the step
\* arriving at it, and travel does not turn there.
lane_change_at(wps, k) == wps[k - 1].lane # wps[k].lane /\ ~turn_at(wps, k)

interior(wps) == 2..(Len(wps) - 1)

RECURSIVE manhattan_sum(_, _)
\* The Manhattan distances of the first k steps, in half grid units.
manhattan_sum(wps, k) ==
    IF k < 1 THEN 0
    ELSE manhattan_sum(wps, k - 1)
             + abs(wps[k + 1].coord.col2 - wps[k].coord.col2)
             + abs(wps[k + 1].coord.row2 - wps[k].coord.row2)

\* The routes the serializer's functions have computed a complexity for.
computed_routes ==
    (IF ser_route # None THEN {ser_route[1]} ELSE {})
        \cup (IF ser_parsed # None THEN {ser_parsed[1]} ELSE {})

length_is_manhattan_sum(r) ==
    r.complexity.length = manhattan_sum(r.waypoints, Len(r.waypoints) - 1)

turns_are_switches(r) ==
    r.complexity.turns = Cardinality({k \in interior(r.waypoints) : turn_at(r.waypoints, k)})

\* The parse of "(1,1)-L0-(1.5,1)-L1-(1.5,2)-L0-(2,2)": 4 waypoints, length
\* 2.0 (4 half units), 2 turns, no lane change.
example_parsed ==
    (ser_pc = "answered" /\ ser_pieces = complexity_computed_on_parse_input) =>
        /\ ser_parsed # None
        /\ Len(ser_parsed[1].waypoints) = 4
        /\ ser_parsed[1].complexity = RouteComplexity(4, 2, 0)

\* C25 as worded: the length of a waypoint sequence is the sum of the
\* Manhattan distances of its steps, its turns are the interior waypoints
\* where travel switches between horizontal and vertical, and its lane
\* changes are the interior waypoints where the lane changes and no turn
\* occurs; the worked example has 4 waypoints, length 2.0, 2 turns and no lane
\* change.
ComplexityAsWorded ==
    /\ \A r \in computed_routes :
          /\ length_is_manhattan_sum(r)
          /\ turns_are_switches(r)
          /\ r.complexity.lane_changes =
                 Cardinality({k \in interior(r.waypoints) : lane_change_at(r.waypoints, k)})
    /\ example_parsed

\* C25, amended: as above, but a lane change is counted only at an interior
\* waypoint whose arriving and leaving steps are both horizontal or vertical
\* (of non-zero length); next to a diagonal or zero-length step no lane change
\* is counted.
ComplexityOfStraightSteps ==
    /\ \A r \in computed_routes :
          /\ length_is_manhattan_sum(r)
          /\ turns_are_switches(r)
          /\ r.complexity.lane_changes =
                 Cardinality({k \in interior(r.waypoints) :
                                 /\ step_is_straight(r.waypoints, k - 1)
                                 /\ step_is_straight(r.waypoints, k)
                                 /\ lane_change_at(r.waypoints, k)})
    /\ example_parsed

\* The worked example has been parsed, with its lane changes at turns.
ComplexityWitness ==
    /\ ser_pc = "answered"
    /\ ser_pieces = complexity_computed_on_parse_input
    /\ ser_parsed # None
    /\ ser_parsed[1].complexity.turns = 2
    /\ \A k \in interior(ser_parsed[1].waypoints) :
          ser_parsed[1].waypoints[k - 1].lane # ser_parsed[1].waypoints[k].lane

\* A parsed route with a lane change between two straight steps that do not
\* turn has been reached.
ComplexityLaneChangeReached ==
    \E r \in computed_routes : \E k \in interior(r.waypoints) :
         /\ step_is_straight(r.waypoints, k - 1)
         /\ step_is_straight(r.waypoints, k)
         /\ lane_change_at(r.waypoints, k)
         /\ r.complexity.lane_changes = 1


----------------------------------------------------------------------------
(* Unobstructed routes *)

\* The diagram has two nodes, at distinct positions, and they are the
\* endpoints of the i-th edge.
only_endpoints(i) ==
    /\ Len(nodes) = 2
    /\ endpoints_known(i)
    /\ source_of(i) # target_of(i)
    /\ node_positions = {source_of(i), target_of(i)}

\* The Manhattan distance between the endpoints of the i-th edge, in half
\* grid units.
endpoint_distance(i) ==
    abs(target_of(i).col2 - source_of(i).col2) + abs(target_of(i).row2 - source_of(i).row2)

shares_row_or_column(i) ==
    source_of(i).col2 = target_of(i).col2 \/ source_of(i).row2 = target_of(i).row2

\* C26: in a diagram of two nodes at distinct positions, with both capacities
\* at least 1, the edge between them routed against an empty occupancy
\* succeeds with a route whose length is the Manhattan distance of the nodes,
\* with no lane change, and with no turn when the nodes share a row or a
\* column and exactly one turn otherwise.
UnobstructedRoute ==
    (config.h_lane_capacity >= 1 /\ config.v_lane_capacity >= 1) =>
        \A i \in DOMAIN results :
            (only_endpoints(i) /\ routed_on_empty_occupancy(i)) =>
                /\ succeeded(i)
                /\ route_of(i).complexity.length = endpoint_distance(i)
                /\ route_of(i).complexity.lane_changes = 0
                /\ route_of(i).complexity.turns = (IF shares_row_or_column(i) THEN 0 ELSE 1)

\* A one-turn route of length 3.0 between two nodes that share neither row
\* nor column, passing through the center of an empty cell, has been
\* returned.
UnobstructedRouteWitness ==
    /\ config.h_lane_capacity >= 1 /\ config.v_lane_capacity >= 1
    /\ \E i \in DOMAIN results :
          /\ only_endpoints(i) /\ routed_on_empty_occupancy(i) /\ succeeded(i)
          /\ ~shares_row_or_column(i)
          /\ route_of(i).complexity.turns = 1
          /\ route_of(i).complexity.length = 6
          /\ \E k \in DOMAIN route_of(i).waypoints :
                /\ is_cell_center(route_of(i).waypoints[k].coord)
                /\ route_of(i).waypoints[k].coord \notin node_positions


----------------------------------------------------------------------------
(* No U-turn *)

\* The routes the searches of the current edge have returned so far.
returned_by_searches == IF Len(search_results) = 4 THEN found_routes ELSE {}

\* The routes route_all_edges has put in its results.
returned_routes == {route_of(i) : i \in {j \in DOMAIN results : succeeded(j)}}

\* The route never comes back, two waypoints later, to where it was.
no_u_turn(route) ==
    \A k \in 1..(Len(route.waypoints) - 2) :
        route.waypoints[k + 2].coord # route.waypoints[k].coord

\* C27: no route a search returns, and so no successful route of
\* route_all_edges, reverses its direction at a waypoint: of three consecutive
\* waypoints the third is never at the coordinate of the first.
NoUTurn == \A route \in returned_by_searches \cup returned_routes : no_u_turn(route)

\* A search that set off away from the target has returned a route, of three
\* turns or more, and the edge has a successful route of at least three
\* waypoints.
NoUTurnWitness ==
    /\ \E route \in returned_by_searches :
          /\ route.complexity.turns >= 3
          /\ heuristic(route.waypoints[2].coord, target[1])
                 > heuristic(route.waypoints[1].coord, target[1])
    /\ \E route \in returned_routes : Len(route.waypoints) >= 3


----------------------------------------------------------------------------
(* Stored and recomputed complexity *)

\* The complexity carried along the search is the complexity of the
\* waypoints.
complexity_matches(route) == route.complexity = compute_complexity(route.waypoints)

\* The counters of a state waiting in the open set under its best known cost
\* are the complexity of the waypoints that lead to it.
carried_complexity_matches ==
    \A e \in open :
        (key(e.state) \in DOMAIN best_g /\ best_g[key(e.state)] = e.state.g_cost) =>
            complexity_matches(reconstruct_route(came_from, key(e.state), source[1],
                                                 first_lanes, e.state))

\* The routes the searches of the current edge that have ended returned.
returned_by_tasks ==
    {task_results[i][1] : i \in {j \in DOMAIN task_results : task_results[j] # None}}

\* C28: the complexity stored in a route returned by a search (and so in
\* every successful route of route_all_edges) equals the complexity
\* compute_complexity derives from its waypoints: the same length, the same
\* turns, the same lane changes; the counters carried along the search agree
\* with the waypoints at every state of the open set already.
StoredComplexity ==
    /\ \A route \in returned_by_searches \cup returned_routes \cup returned_by_tasks :
          complexity_matches(route)
    /\ carried_complexity_matches

\* A search has returned a route that changes lane at a turn, and the open
\* set of the next search holds a state that has turned and has changed lane
\* on a straight stretch.
StoredComplexityWitness ==
    /\ \E route \in returned_by_tasks :
          /\ route.complexity.turns >= 1
          /\ route.complexity.length > 0
          /\ \E k \in interior(route.waypoints) :
                /\ turn_at(route.waypoints, k)
                /\ route.waypoints[k - 1].lane # route.waypoints[k].lane
    /\ \E e \in open :
          /\ best_g[key(e.state)] = e.state.g_cost
          /\ e.state.lane_changes_so_far >= 1
          /\ e.state.turns_so_far >= 1


----------------------------------------------------------------------------
(* Reachability on an uncontended grid *)

\* The coordinate lies on a boundary street of the graph.
on_boundary_street(c) ==
    \/ c.col2 \in {graph.c2_min, graph.c2_max}
    \/ c.row2 \in {graph.r2_min, graph.r2_max}

\* C29: with both capacities at least 1, an edge whose source and target are
\* both known and which is routed before any lane is claimed (the first edge
\* of the call in particular) succeeds, wherever the other nodes are.
Reachability ==
    (config.h_lane_capacity >= 1 /\ config.v_lane_capacity >= 1) =>
        \A i \in DOMAIN results :
            (endpoints_known(i) /\ routed_on_empty_occupancy(i)) => succeeded(i)

\* The first edge of a call joins the two outer nodes of a row of three, the
\* only row of the diagram, and its route goes round the node in between
\* along a boundary street.
ReachabilityWitness ==
    /\ config.h_lane_capacity >= 1 /\ config.v_lane_capacity >= 1
    /\ Len(results) >= 1 /\ endpoints_known(1) /\ succeeded(1)
    /\ Len(nodes) = 3
    /\ \A n \in DOMAIN nodes : nodes[n].row = 1
    /\ source_of(1) # target_of(1)
    /\ \E k \in DOMAIN route_of(1).waypoints :
          /\ on_boundary_street(route_of(1).waypoints[k].coord)
          /\ route_of(1).waypoints[k].coord.row2 # source_of(1).row2


----------------------------------------------------------------------------
(* No coordinate twice *)

\* No two waypoints of the route are at one coordinate.
visits_once(route) ==
    \A a, b \in DOMAIN route.waypoints :
        route.waypoints[a].coord = route.waypoints[b].coord => a = b

\* The segments the route travels.
segments_of(route) == {u.seg : u \in uses(route)}

RECURSIVE segments_claimed_up_to(_)
\* The number of waypoint pairs of the successful routes among the first n
\* results.
segments_claimed_up_to(n) ==
    IF n = 0 THEN 0
    ELSE segments_claimed_up_to(n - 1)
             + (IF succeeded(n) THEN Len(route_of(n).waypoints) - 1 ELSE 0)

\* C30: no route a search returns, and so no successful route of
\* route_all_edges, is at one coordinate at two waypoint indices; it travels
\* (number of waypoints - 1) distinct segments, and claim_route has claimed
\* that many (segment, lane) pairs for each successful route.
VisitsOnce ==
    /\ \A route \in returned_by_searches \cup returned_routes :
          /\ visits_once(route)
          /\ Cardinality(segments_of(route)) = Len(route.waypoints) - 1
    /\ Cardinality(claims_of(occupancy)) = segments_claimed_up_to(Len(results))

\* Two edges of one call have succeeded, the second with a detour of six
\* waypoints or more and two turns or more, and the claims of both routes are
\* in the tracker.
VisitsOnceWitness ==
    /\ Len(results) = 2 /\ succeeded(1) /\ succeeded(2)
    /\ Len(route_of(2).waypoints) >= 6
    /\ route_of(2).complexity.turns >= 2
    /\ Cardinality(claims_of(occupancy))
           = Len(route_of(1).waypoints) + Len(route_of(2).waypoints) - 2
    /\ Cardinality(claims_of(occupancy)) >= 7

\* The parser has returned a route for an input that holds a coordinate
\* written with seventeen digits, an exponent and a NaN, read as (5.25, 0),
\* and ends with a Windows line ending.
ParseTrimsLineEndingReached ==
    /\ ser_pc = "answered"
    /\ ser_parsed # None
    /\ ser_pieces[Len(ser_pieces)].text = <<"\r", "\n">>
    /\ \E i \in DOMAIN ser_pieces : "e" \in elements(ser_pieces[i].text)
    /\ \E k \in DOMAIN ser_parsed[1].waypoints :
          ser_parsed[1].waypoints[k].coord = GridCoord(11, 0)

====
